---- MODULE Spec2Model ----
(***************************************************************************)
(* A state-machine model of the rune tree-walking interpreter              *)
(* (src/src/interpreter.rs): the lexical stack of each Interpreter frame,  *)
(* the global binding store, the symbols' function cells and the arena of  *)
(* cons cells.  One evaluation of a form is a sequence of steps, one per    *)
(* code segment of the handler that runs between two sub-evaluations; the  *)
(* pending handlers are kept on a continuation stack, as the Rust call      *)
(* stack keeps them.                                                       *)
(***************************************************************************)
EXTENDS Integers, Sequences, FiniteSets, TLC

VARIABLES
    heap,      \* the arena: heap[a] is the cons cell at address a
    globals,   \* Environment.vars: symbol id -> value, or Unbound
    funcs,     \* the symbols' function cells: symbol id -> callable, or Unbound
    frames,    \* the live Interpreter structs, innermost last; each is its `vars`
    kont,      \* the pending handlers (Rust call stack), innermost last
    ctl,       \* what the innermost handler does next: evaluate, resume, return
    evals,     \* number of top-level eval calls made so far
    prog,      \* index of the program passed to the running top-level eval
    last,      \* name of the step taken last
    made,      \* history: the closures built by `function`, with the scope they were built in
    log,       \* history: the forms the running eval has begun to evaluate, in order
    word,      \* the value word under construction, and what it was built from
    obarray    \* the intern table: the names with a symbol, in order of creation,
               \* and the history of the intern calls with the symbol each returned

(* the state of the value-word and interning layer, under the interpreter *)
words == <<word, obarray>>

vars == <<heap, globals, funcs, frames, kont, ctl, evals, prog, last, made, log, word, obarray>>

-----------------------------------------------------------------------------
(* Bounds of the model.                                                    *)

MaxEvals == 1

(* the number of intern calls made on the intern table *)
MaxInterns == 4

(* the length of the parameter lists given to bind_args on its own *)
MaxParams == 3

-----------------------------------------------------------------------------
(* Objects.  An Object is a tagged word: a tag and a payload (an integer,  *)
(* a symbol identity, or the address of a cons cell).                      *)

Obj(t, v) == [t |-> t, v |-> v]

NIL == Obj("nil", 0)

TRUE_ == Obj("true", 0)

Int_(i) == Obj("int", i)

ConsObj(a) == Obj("cons", a)

SymObj(s) == Obj("sym", s)

SubrObj(s) == Obj("subr", s)

(* a function compiled to bytecode, named by a symbol id *)
LispFnObj(s) == Obj("lispfn", s)

Unbound == Obj("unbound", 0)

(* The symbol table.  A symbol's name is its sequence of characters; its    *)
(* identity is its index in the table.                                      *)
SymTab ==
    << <<"q","u","o","t","e">>, <<"l","e","t">>, <<"l","e","t","*">>,
       <<"i","f">>, <<"a","n","d">>, <<"o","r">>, <<"c","o","n","d">>,
       <<"w","h","i","l","e">>, <<"p","r","o","g","n">>,
       <<"p","r","o","g","1">>, <<"p","r","o","g","2">>,
       <<"s","e","t","q">>, <<"d","e","f","v","a","r">>,
       <<"d","e","f","c","o","n","s","t">>,
       <<"f","u","n","c","t","i","o","n">>, <<"l","a","m","b","d","a">>,
       <<"c","l","o","s","u","r","e">>,
       <<"&","o","p","t","i","o","n","a","l">>, <<"&","r","e","s","t">>,
       <<"f","u","n","c","a","l","l">>, <<"d","e","f","a","l","i","a","s">>,
       <<"c","o","n","s">>, <<"c","a","r">>, <<"c","d","r">>, <<"+">>,
       <<"x">>, <<"y">>, <<"z">>, <<"f">>, <<"g">>, <<":","k">>,
       <<"u","n","d","e","f">>, <<"m","a","c","r","o">>,
       <<"c","o","m","p","i","l","e","d">> >>

SymIds == DOMAIN SymTab

intern(name) == CHOOSE i \in SymIds : SymTab[i] = name

sym_QUOTE == intern(<<"q","u","o","t","e">>)

sym_LET == intern(<<"l","e","t">>)

sym_LET_STAR == intern(<<"l","e","t","*">>)

sym_IF == intern(<<"i","f">>)

sym_AND == intern(<<"a","n","d">>)

sym_OR == intern(<<"o","r">>)

sym_COND == intern(<<"c","o","n","d">>)

sym_WHILE == intern(<<"w","h","i","l","e">>)

sym_PROGN == intern(<<"p","r","o","g","n">>)

sym_PROG1 == intern(<<"p","r","o","g","1">>)

sym_PROG2 == intern(<<"p","r","o","g","2">>)

sym_SETQ == intern(<<"s","e","t","q">>)

sym_DEFVAR == intern(<<"d","e","f","v","a","r">>)

sym_DEFCONST == intern(<<"d","e","f","c","o","n","s","t">>)

sym_FUNCTION == intern(<<"f","u","n","c","t","i","o","n">>)

sym_LAMBDA == intern(<<"l","a","m","b","d","a">>)

sym_CLOSURE == intern(<<"c","l","o","s","u","r","e">>)

sym_AND_OPTIONAL == intern(<<"&","o","p","t","i","o","n","a","l">>)

sym_AND_REST == intern(<<"&","r","e","s","t">>)

sym_FUNCALL == intern(<<"f","u","n","c","a","l","l">>)

sym_DEFALIAS == intern(<<"d","e","f","a","l","i","a","s">>)

sym_CONS == intern(<<"c","o","n","s">>)

sym_CAR == intern(<<"c","a","r">>)

sym_CDR == intern(<<"c","d","r">>)

sym_PLUS == intern(<<"+">>)

sym_X == intern(<<"x">>)

sym_Y == intern(<<"y">>)

sym_Z == intern(<<"z">>)

sym_F == intern(<<"f">>)

sym_G == intern(<<"g">>)

sym_KEY == intern(<<":","k">>)

sym_UNDEF == intern(<<"u","n","d","e","f">>)

sym_MACRO == intern(<<"m","a","c","r","o">>)

(* the name of a function that is compiled to bytecode *)
sym_COMPILED == intern(<<"c","o","m","p","i","l","e","d">>)

SpecialForms ==
    {sym_QUOTE, sym_LET, sym_LET_STAR, sym_IF, sym_AND, sym_OR, sym_COND, sym_WHILE, sym_PROGN, sym_PROG1, sym_PROG2,
     sym_SETQ, sym_DEFVAR, sym_DEFCONST, sym_FUNCTION}

Subrs == {sym_FUNCALL, sym_DEFALIAS, sym_CONS, sym_CAR, sym_CDR, sym_PLUS}

(* sym.name.starts_with(':') *)
IsKeyword(s) == Len(SymTab[s]) > 0 /\ SymTab[s][1] = ":"

-----------------------------------------------------------------------------
(* Errors.                                                                  *)

Err(kind, a, b) == [kind |-> kind, a |-> a, b |-> b]

NoErr == Err("none", 0, 0)

ArgCount(expected, actual) == Err("ArgCount", expected, actual)

TypeErr(expected) == Err(expected, 0, 0)

-----------------------------------------------------------------------------
(* The arena and lists.                                                     *)

Cell(car, cdr) == [car |-> car, cdr |-> cdr]

(* cons!(car, cdr; arena): a new cell at the next free address *)
Alloc(h, car, cdr) == [h |-> Append(h, Cell(car, cdr)), o |-> ConsObj(Len(h) + 1)]

Car(h, o) == h[o.v].car

Cdr(h, o) == h[o.v].cdr

IsCons(o) == o.t = "cons"

IsSym(o) == o.t = "sym"

(* Object::as_list succeeds on a cons or nil *)
IsList(o) == o.t \in {"cons", "nil"}

(* ElemIter::next on the iterator positioned at `it`: none at the end, an   *)
(* element and the rest of the list, or an error on a non-nil final cdr.    *)
IterNext(h, it) ==
    IF ~IsCons(it) THEN [some |-> FALSE, ok |-> TRUE, val |-> NIL, rest |-> NIL]
    ELSE IF ~IsList(Cdr(h, it))
         THEN [some |-> TRUE, ok |-> FALSE, val |-> NIL, rest |-> it]
         ELSE [some |-> TRUE, ok |-> TRUE, val |-> Car(h, it), rest |-> Cdr(h, it)]

RECURSIVE ListLen(_, _)
(* ElemIter::len: the number of cells of the list *)
ListLen(h, o) == IF IsCons(o) THEN 1 + ListLen(h, Cdr(h, o)) ELSE 0

RECURSIVE ListElems(_, _)
(* the elements of a proper list, in order *)
ListElems(h, o) == IF IsCons(o) THEN <<Car(h, o)>> \o ListElems(h, Cdr(h, o)) ELSE <<>>

RECURSIVE Proper(_, _)
(* o is a list that ends in nil *)
Proper(h, o) == o = NIL \/ (IsCons(o) /\ Proper(h, Cdr(h, o)))

RECURSIVE slice_into_list(_, _, _)
(* fns::slice_into_list(values, tail, arena): the list of `values` ending in `tail` *)
slice_into_list(h, values, tail) ==
    IF values = <<>> THEN [h |-> h, o |-> tail]
    ELSE LET rest == slice_into_list(h, Tail(values), tail)
         IN Alloc(rest.h, Head(values), rest.o)

-----------------------------------------------------------------------------
(* Variable lookup and assignment (Interpreter::var_ref, var_set).         *)

(* a lookup from the wrong end: the least recently pushed binding wins *)
FindBindingOutermost(h, vs, s) ==
    LET hits == {i \in DOMAIN vs : h[vs[i]].car = SymObj(s)}
    IN IF hits = {} THEN 0 ELSE CHOOSE i \in hits : \A j \in hits : i <= j

(* self.vars.iter().rev().find(|cons| cons.car() == name): the index of the *)
(* most recently pushed binding of symbol s in vs, 0 when there is none.    *)
FindBinding(h, vs, s) ==
    LET hits == {i \in DOMAIN vs : h[vs[i]].car = SymObj(s)}
    IN IF hits = {} THEN 0 ELSE CHOOSE i \in hits : \A j \in hits : j <= i

(* a variable reference that looks every symbol up *)
var_ref_lookup_keyword(h, g, vs, s) ==
    LET i == FindBinding(h, vs, s)
    IN IF i # 0 THEN [ok |-> TRUE, val |-> h[vs[i]].cdr, err |-> NoErr]
       ELSE IF g[s] # Unbound THEN [ok |-> TRUE, val |-> g[s], err |-> NoErr]
       ELSE [ok |-> FALSE, val |-> NIL, err |-> Err("VoidVariable", s, 0)]

(* Interpreter::var_ref *)
var_ref(h, g, vs, s) ==
    IF IsKeyword(s) THEN [ok |-> TRUE, val |-> SymObj(s), err |-> NoErr]
    ELSE LET i == FindBinding(h, vs, s)
         IN IF i # 0 THEN [ok |-> TRUE, val |-> h[vs[i]].cdr, err |-> NoErr]
            ELSE IF g[s] # Unbound THEN [ok |-> TRUE, val |-> g[s], err |-> NoErr]
            ELSE [ok |-> FALSE, val |-> NIL, err |-> Err("VoidVariable", s, 0)]

(* an assignment that always goes to the global store *)
var_set_global(h, g, vs, name, new_value) ==
    [h |-> h, g |-> [g EXCEPT ![name] = new_value]]

var_set(h, g, vs, name, new_value) ==
    LET i == FindBinding(h, vs, name)
    IN IF i # 0
       THEN [h |-> [h EXCEPT ![vs[i]].cdr = new_value], g |-> g]
       ELSE [h |-> h, g |-> [g EXCEPT ![name] = new_value]]

-----------------------------------------------------------------------------
(* Closures: creation, environment parsing, argument binding.              *)

RECURSIVE CopyCells(_, _)
(* a copy of every cell of vs, in new cells *)
CopyCells(h, vs) ==
    IF vs = <<>> THEN [h |-> h, vs |-> <<>>]
    ELSE LET c == Alloc(h, h[Head(vs)].car, h[Head(vs)].cdr)
             r == CopyCells(c.h, Tail(vs))
         IN [h |-> r.h, vs |-> <<c.o.v>> \o r.vs]

(* a capture by value: the ENV list holds copies of the binding cells *)
capture_env_by_value(h, vs, tail) ==
    LET c == CopyCells(h, vs)
    IN slice_into_list(c.h, [i \in DOMAIN c.vs |-> ConsObj(c.vs[i])], tail)

(* a capture that lists the binding cells innermost first *)
capture_env_innermost_first(h, vs, tail) ==
    slice_into_list(h, [i \in DOMAIN vs |-> ConsObj(vs[Len(vs) + 1 - i])], tail)

(* the ENV list of a new closure: the binding cells of the lexical stack    *)
(* themselves, in stack order, ending in `tail`                             *)
capture_env(h, vs, tail) ==
    slice_into_list(h, [i \in DOMAIN vs |-> ConsObj(vs[i])], tail)

(* Interpreter::eval_function on the argument list `obj` of a `function`    *)
(* form, evaluated in a frame whose lexical stack is vs.                    *)
eval_function(h, vs, obj) ==
    IF ~IsList(obj) THEN [ok |-> FALSE, err |-> TypeErr("Type:List"), h |-> h, o |-> NIL]
    ELSE IF ListLen(h, obj) % 65536 # 1
    THEN [ok |-> FALSE, err |-> ArgCount(1, ListLen(h, obj) % 65536), h |-> h, o |-> NIL]
    ELSE IF ~IterNext(h, obj).ok
    THEN [ok |-> FALSE, err |-> Err("ImproperList", 0, 0), h |-> h, o |-> NIL]
    ELSE LET arg == Car(h, obj)
         IN IF IsCons(arg) /\ Car(h, arg) = SymObj(sym_LAMBDA)
            THEN LET tl == Alloc(h, TRUE_, NIL)
                     env == capture_env(tl.h, vs, tl.o)
                     end == Alloc(env.h, env.o, Cdr(h, arg))
                     clo == Alloc(end.h, SymObj(sym_CLOSURE), end.o)
                 IN [ok |-> TRUE, err |-> NoErr, h |-> clo.h, o |-> clo.o]
            ELSE [ok |-> TRUE, err |-> NoErr, h |-> h, o |-> arg]

RECURSIVE parse_closure_env_loop(_, _, _)
parse_closure_env_loop(h, it, env) ==
    LET n == IterNext(h, it)
    IN IF ~n.some
       THEN [ok |-> FALSE, err |-> Err("ClosureEnvNoT", 0, 0), env |-> env]
       ELSE IF ~n.ok
       THEN [ok |-> FALSE, err |-> Err("ImproperList", 0, 0), env |-> env]
       ELSE IF IsCons(n.val)
       THEN parse_closure_env_loop(h, n.rest, Append(env, n.val.v))
       ELSE IF n.val = TRUE_
       THEN [ok |-> TRUE, err |-> NoErr, env |-> env]
       ELSE [ok |-> FALSE, err |-> Err("InvalidClosureEnvMember", 0, 0), env |-> env]

(* Interpreter::parse_closure_env: the cells of the ENV list up to `t` *)
parse_closure_env(h, obj) ==
    IF ~IsList(obj) THEN [ok |-> FALSE, err |-> TypeErr("Type:List"), env |-> <<>>]
    ELSE parse_closure_env_loop(h, obj, <<>>)

RECURSIVE parse_arg_list_loop(_, _, _, _, _)
parse_arg_list_loop(h, it, in_optional, required, optional) ==
    LET n == IterNext(h, it)
        bad(e) == [ok |-> FALSE, err |-> e, required |-> required,
                   optional |-> optional, rest |-> Unbound]
        done(r) == [ok |-> TRUE, err |-> NoErr, required |-> required,
                    optional |-> optional, rest |-> r]
    IN IF ~n.some THEN done(Unbound)
       ELSE IF ~n.ok THEN bad(Err("ImproperList", 0, 0))
       ELSE IF ~IsSym(n.val) THEN bad(TypeErr("Type:Symbol"))
       ELSE IF n.val.v = sym_AND_OPTIONAL
       THEN parse_arg_list_loop(h, n.rest, TRUE, required, optional)
       ELSE IF n.val.v = sym_AND_REST
       THEN LET m == IterNext(h, n.rest)
            IN IF ~m.some THEN done(Unbound)
               ELSE IF ~m.ok THEN bad(Err("ImproperList", 0, 0))
               ELSE IF ~IsSym(m.val) THEN bad(TypeErr("Type:Symbol"))
               ELSE IF IterNext(h, m.rest).some THEN bad(Err("MultipleAfterRest", 0, 0))
               ELSE done(m.val)
       ELSE IF in_optional
       THEN parse_arg_list_loop(h, n.rest, in_optional, required, Append(optional, n.val.v))
       ELSE parse_arg_list_loop(h, n.rest, in_optional, Append(required, n.val.v), optional)

(* a parse that takes what stands before a second element after &rest *)
parse_arg_list_lenient(h, bindings) ==
    LET r == parse_arg_list_loop(h, bindings, FALSE, <<>>, <<>>)
    IN IF r.err = Err("MultipleAfterRest", 0, 0)
       THEN [r EXCEPT !.ok = TRUE, !.err = NoErr]
       ELSE r

(* Interpreter::parse_arg_list: (required, optional, rest) of a parameter list *)
parse_arg_list(h, bindings) ==
    IF ~IsList(bindings)
    THEN [ok |-> FALSE, err |-> TypeErr("Type:List"), required |-> <<>>,
          optional |-> <<>>, rest |-> Unbound]
    ELSE parse_arg_list_loop(h, bindings, FALSE, <<>>, <<>>)

RECURSIVE PushCellsGiven(_, _, _, _)
(* a binding that makes cells only for the names that have a value *)
PushCellsGiven(h, vs, names, values) ==
    IF names = <<>> \/ values = <<>> THEN [h |-> h, vs |-> vs]
    ELSE LET c == Alloc(h, SymObj(Head(names)), Head(values))
         IN PushCellsGiven(c.h, Append(vs, c.o.v), Tail(names), Tail(values))

RECURSIVE PushCells(_, _, _, _)
(* one cell (name . value) per name, pushed on vs in order; a missing value is nil *)
PushCells(h, vs, names, values) ==
    IF names = <<>> THEN [h |-> h, vs |-> vs]
    ELSE LET val == IF values = <<>> THEN NIL ELSE Head(values)
             c == Alloc(h, SymObj(Head(names)), val)
         IN PushCells(c.h, Append(vs, c.o.v), Tail(names),
                      IF values = <<>> THEN <<>> ELSE Tail(values))

Drop(s, n) == IF n >= Len(s) THEN <<>> ELSE SubSeq(s, n + 1, Len(s))

(* a binding that ignores the arguments beyond the parameters *)
bind_args_ignore_extra(h, p, args, vs) ==
    LET req == PushCells(h, vs, p.required, SubSeq(args, 1, Len(p.required)))
        opt == PushCells(req.h, req.vs, p.optional, Drop(args, Len(p.required)))
        lst == slice_into_list(opt.h, Drop(args, Len(p.required) + Len(p.optional)), NIL)
        rst == Alloc(lst.h, p.rest, lst.o)
    IN IF Len(args) < Len(p.required)
       THEN [ok |-> FALSE, err |-> ArgCount(Len(p.required), Len(args)), h |-> h, vs |-> vs]
       ELSE IF p.rest # Unbound
       THEN [ok |-> TRUE, err |-> NoErr, h |-> rst.h, vs |-> Append(opt.vs, rst.o.v)]
       ELSE [ok |-> TRUE, err |-> NoErr, h |-> opt.h, vs |-> opt.vs]

(* Interpreter::bind_args after parse_arg_list returned p: the parameter     *)
(* cells pushed on top of vs                                                *)
bind_parsed_args(h, p, args, vs) ==
    LET num_required_args == Len(p.required) % 65536
        num_optional_args == Len(p.optional) % 65536
        num_actual_args == Len(args) % 65536
        req == PushCells(h, vs, p.required, SubSeq(args, 1, Len(p.required)))
        opt == PushCells(req.h, req.vs, p.optional, Drop(args, Len(p.required)))
        left == Drop(args, Len(p.required) + Len(p.optional))
        lst == slice_into_list(opt.h, left, NIL)
        rst == Alloc(lst.h, p.rest, lst.o)
    IN IF ~(num_actual_args >= num_required_args)
       THEN [ok |-> FALSE, err |-> ArgCount(num_required_args, num_actual_args),
             h |-> h, vs |-> vs]
       ELSE IF p.rest # Unbound
       THEN [ok |-> TRUE, err |-> NoErr, h |-> rst.h, vs |-> Append(opt.vs, rst.o.v)]
       ELSE IF left # <<>>
       THEN [ok |-> FALSE,
             err |-> ArgCount((num_required_args + num_optional_args) % 65536, num_actual_args),
             h |-> opt.h, vs |-> opt.vs]
       ELSE [ok |-> TRUE, err |-> NoErr, h |-> opt.h, vs |-> opt.vs]

(* the `?` on parse_arg_list in bind_args *)
bind_args_try(h, p, args, vs) ==
    IF ~p.ok THEN [ok |-> FALSE, err |-> p.err, h |-> h, vs |-> vs]
    ELSE bind_parsed_args(h, p, args, vs)

(* Interpreter::bind_args: the parameter cells pushed on top of vs *)
bind_args(h, arg_list, args, vs) ==
    bind_args_try(h, parse_arg_list(h, arg_list), args, vs)

(* a call frame that starts from an empty stack: ENV is not consulted *)
bind_variables_no_env(h, forms, args) ==
    LET a == IterNext(h, IterNext(h, forms).rest)
    IN bind_args(h, a.val, args, <<>>) @@ [body |-> a.rest]

(* Interpreter::bind_variables on the iterator over (ENV ARGLIST . BODY):   *)
(* the lexical stack of the call frame and the body left to evaluate.       *)
bind_variables(h, forms, args) ==
    LET e == IterNext(h, forms)
        env == parse_closure_env(h, e.val)
        a == IterNext(h, e.rest)
        bad(x) == [ok |-> FALSE, err |-> x, h |-> h, vs |-> <<>>, body |-> NIL]
    IN IF ~e.some THEN bad(Err("ClosureMissingEnv", 0, 0))
       ELSE IF ~e.ok THEN bad(Err("ImproperList", 0, 0))
       ELSE IF ~env.ok THEN bad(env.err)
       ELSE IF ~a.some THEN bad(Err("ClosureMissingArgList", 0, 0))
       ELSE IF ~a.ok THEN bad(Err("ImproperList", 0, 0))
       ELSE bind_args(h, a.val, args, env.env) @@ [body |-> a.rest]

(* Interpreter::call_closure up to the construction of call_frame *)
call_closure(h, closure, args) ==
    IF ~(Car(h, closure) = SymObj(sym_CLOSURE))
    THEN [ok |-> FALSE, err |-> TypeErr("Type:Func"), h |-> h, vs |-> <<>>, body |-> NIL]
    ELSE IF ~IsList(Cdr(h, closure))
    THEN [ok |-> FALSE, err |-> TypeErr("Type:List"), h |-> h, vs |-> <<>>, body |-> NIL]
    ELSE bind_variables(h, Cdr(h, closure), args)

(* a copy that shares the cells of the original *)
clone_in_shared(h, o) == [h |-> h, o |-> o]

RECURSIVE clone_in(_, _)
(* Object::clone_in: a deep copy of a cons tree in new cells; scalars as they are *)
clone_in(h, o) ==
    IF IsCons(o)
    THEN LET a == clone_in(h, Car(h, o))
             d == clone_in(a.h, Cdr(h, o))
         IN Alloc(d.h, a.o, d.o)
    ELSE [h |-> h, o |-> o]

-----------------------------------------------------------------------------
(* Native functions the programs use.                                      *)

RECURSIVE SumInts(_)
SumInts(vals) == IF vals = <<>> THEN 0 ELSE Head(vals).v + SumInts(Tail(vals))

(* defalias: the definition is copied out of the evaluation's arena before  *)
(* it is stored in the symbol's function cell                               *)
defalias(h, f, args) ==
    LET bad(e) == [ok |-> FALSE, err |-> e, h |-> h, f |-> f, val |-> NIL]
        c == clone_in(h, args[2])
    IN IF Len(args) # 2 THEN bad(ArgCount(2, Len(args)))
       ELSE IF ~IsSym(args[1]) THEN bad(TypeErr("Type:Symbol"))
       ELSE IF args[2].t \notin {"cons", "subr"} THEN bad(TypeErr("Type:Func"))
       ELSE [ok |-> TRUE, err |-> NoErr, h |-> c.h,
             f |-> [f EXCEPT ![args[1].v] = c.o], val |-> args[1]]

(* bytecode::call_subr for the natives other than funcall *)
call_subr(h, f, name, args) ==
    LET bad(e) == [ok |-> FALSE, err |-> e, h |-> h, f |-> f, val |-> NIL]
        good(h2, v) == [ok |-> TRUE, err |-> NoErr, h |-> h2, f |-> f, val |-> v]
    IN IF name = sym_CONS
       THEN IF Len(args) # 2 THEN bad(ArgCount(2, Len(args)))
            ELSE LET c == Alloc(h, args[1], args[2]) IN good(c.h, c.o)
       ELSE IF name \in {sym_CAR, sym_CDR}
       THEN IF Len(args) # 1 THEN bad(ArgCount(1, Len(args)))
            ELSE IF args[1] = NIL THEN good(h, NIL)
            ELSE IF ~IsCons(args[1]) THEN bad(TypeErr("Type:List"))
            ELSE good(h, IF name = sym_CAR THEN Car(h, args[1]) ELSE Cdr(h, args[1]))
       ELSE IF name = sym_PLUS
       THEN IF \E i \in DOMAIN args : args[i].t # "int" THEN bad(TypeErr("Type:Number"))
            ELSE good(h, Int_(SumInts(args)))
       ELSE defalias(h, f, args)

(* Symbol::resolve_callable: the content of the symbol's function cell *)
resolve_callable(f, name) == f[name]

(* Callable::Macro: the function cell holds (macro . TRANSFORM), TRANSFORM  *)
(* an uncompiled function                                                   *)
IsMacro(h, func) ==
    IsCons(func) /\ Car(h, func) = SymObj(sym_MACRO) /\ IsCons(Cdr(h, func))

(* bytecode::call_lisp on the compiled function of the model, which returns *)
(* the list of its arguments                                                *)
call_lisp(h, args) == slice_into_list(h, args, NIL)

-----------------------------------------------------------------------------
(* The machine.                                                            *)

Ctl(m, o, e) == [m |-> m, o |-> o, e |-> e]

EvalC(o) == Ctl("eval", o, NoErr)

StepC == Ctl("step", NIL, NoErr)

RetC(v) == Ctl("ret", v, NoErr)

ErrC(e) == Ctl("err", NIL, e)

(* a pending handler; the fields a handler does not use keep these values.  *)
(* History fields: src is the argument list the handler was given and at    *)
(* the number of evaluations begun before it was entered.                   *)
KF(k) ==
    [k |-> k, o |-> NIL, o2 |-> NIL, p |-> NIL, n |-> 0, n2 |-> 0,
     vals |-> <<>>, cells |-> <<>>, saved |-> <<>>, flag |-> FALSE,
     src |-> NIL, at |-> Len(log)]

Top == kont[Len(kont)]

CurVars == frames[Len(frames)]

Push(k) == Append(kont, k)

Pop == SubSeq(kont, 1, Len(kont) - 1)

Replace(k) == [kont EXCEPT ![Len(kont)] = k]

SetVars(vs) == [frames EXCEPT ![Len(frames)] = vs]

(* the form being evaluated is a cons whose car is the symbol s *)
AtForm(s) == ctl.m = "eval" /\ IsCons(ctl.o) /\ Car(heap, ctl.o) = SymObj(s)

Resuming(k) == ctl.m = "step" /\ kont # <<>> /\ Top.k = k

Returning(k) == ctl.m = "ret" /\ kont # <<>> /\ Top.k = k

(* the log after a step to the control c2 under the handlers k2: a call of  *)
(* eval_form and a value returned are recorded with the depth of the        *)
(* handler that makes the call or receives the value                        *)
Logged(k2, c2) ==
    IF c2.m \in {"eval", "ret"}
    THEN Append(log, [m |-> c2.m, d |-> Len(k2), o |-> c2.o])
    ELSE log

(* a step that leaves the global store and the function cells alone *)
Go(name, h2, fr2, k2, c2) ==
    /\ heap' = h2
    /\ frames' = fr2
    /\ kont' = k2
    /\ ctl' = c2
    /\ last' = name
    /\ log' = Logged(k2, c2)
    /\ UNCHANGED <<globals, funcs, evals, prog, made, words>>

-----------------------------------------------------------------------------
(* Programs.  A program is written as a tree and read into the arena as     *)
(* cons cells before it is evaluated.                                       *)

A(o) == [k |-> "atom", o |-> o, e |-> <<>>]

L(e) == [k |-> "list", o |-> NIL, e |-> e]

(* a dotted list: the elements e followed by the non-nil final cdr o *)
LD(e, o) == [k |-> "list", o |-> o, e |-> e]

S(s) == A(SymObj(s))

N(i) == A(Int_(i))

Nil == A(NIL)

T == A(TRUE_)

Q(x) == L(<<S(sym_QUOTE), x>>)

Fn(x) == L(<<S(sym_FUNCTION), x>>)

Lambda(params, body) == Fn(L(<<S(sym_LAMBDA), L(params)>> \o body))

RECURSIVE Size(_)
RECURSIVE SumSizes(_)
(* the number of cells the reader allocates for a tree *)
Size(n) == IF n.k = "atom" THEN 0 ELSE Len(n.e) + SumSizes(n.e)

SumSizes(es) == IF es = <<>> THEN 0 ELSE Size(Head(es)) + SumSizes(Tail(es))

(* the object for a tree whose cells are laid out after address b *)
ObjAt(n, b) == IF n.k = "atom" \/ n.e = <<>> THEN n.o ELSE ConsObj(b + 1)

RECURSIVE Cells(_, _)
RECURSIVE ElemCells(_, _, _)
(* the cells of a tree laid out after address b: the cells of the list      *)
(* itself, then the cells of its elements, one element after the other      *)
Cells(n, b) ==
    IF n.k = "atom" \/ n.e = <<>> THEN <<>>
    ELSE LET len == Len(n.e)
             at(i) == b + len + SumSizes(SubSeq(n.e, 1, i - 1))
         IN [i \in 1..len |->
                Cell(ObjAt(n.e[i], at(i)), IF i = len THEN n.o ELSE ConsObj(b + i + 1))]
            \o ElemCells(n.e, 1, b + len)

ElemCells(es, i, b) ==
    IF i > Len(es) THEN <<>>
    ELSE Cells(es[i], b) \o ElemCells(es, i + 1, b + Size(es[i]))

(* the reader: the object for a tree, its cells allocated in h *)
Read(h, n) == [h |-> h \o Cells(n, Len(h)), o |-> ObjAt(n, Len(h))]

Let1(bindings, body) == L(<<S(sym_LET), L(bindings)>> \o body)

LetStar(bindings, body) == L(<<S(sym_LET_STAR), L(bindings)>> \o body)

B(s, init) == L(<<S(s), init>>)

Setq(s, v) == L(<<S(sym_SETQ), S(s), v>>)

Call2(f, a, b) == L(<<S(f), a, b>>)

Funcall0(f) == L(<<S(sym_FUNCALL), f>>)

Funcall1(f, a) == L(<<S(sym_FUNCALL), f, a>>)

Progn(body) == L(<<S(sym_PROGN)>> \o body)

Defalias(s, def) == L(<<S(sym_DEFALIAS), Q(S(s)), def>>)

(* (lambda (y) (setq x y)) and (lambda (y) (+ y x)) *)
SetX == Lambda(<<S(sym_Y)>>, <<Setq(sym_X, S(sym_Y))>>)

AddX == Lambda(<<S(sym_Y)>>, <<Call2(sym_PLUS, S(sym_Y), S(sym_X))>>)

(* (let ((x 1)) (let ((x 3)) x))                                            *)
TestShadow ==
    Let1(<<B(sym_X, N(1))>>, <<Let1(<<B(sym_X, N(3))>>, <<S(sym_X)>>)>>)

(* (let* ((x 1) (y x)) y)                                                   *)
TestLetStar ==
    LetStar(<<B(sym_X, N(1)), B(sym_Y, S(sym_X))>>, <<S(sym_Y)>>)

(* (let ((x 1) (y x)) y)                                                    *)
TestLetParallel ==
    Let1(<<B(sym_X, N(1)), B(sym_Y, S(sym_X))>>, <<S(sym_Y)>>)

(* (setq x 1 y 2)                                                           *)
TestSetqPairs ==
    L(<<S(sym_SETQ), S(sym_X), N(1), S(sym_Y), N(2)>>)

(* (let ((x 1)) (defvar x 5))                                               *)
TestDefvarInLet ==
    Let1(<<B(sym_X, N(1))>>, <<L(<<S(sym_DEFVAR), S(sym_X), N(5)>>)>>)

(* (progn (setq f (let ((x 3)) (cons #'(lambda (y) (setq x y)) #'(lambda    *)
(* (y) (+ y x))))) (funcall (car f) 5) (funcall (cdr f) 4))                 *)
TestSharedClosures ==
    Progn(<<Setq(sym_F, Let1(<<B(sym_X, N(3))>>, <<Call2(sym_CONS, SetX, AddX)>>)),
            Funcall1(L(<<S(sym_CAR), S(sym_F)>>), N(5)),
            Funcall1(L(<<S(sym_CDR), S(sym_F)>>), N(4))>>)

(* (progn (setq g (let ((x 3)) (defalias 'f #'(lambda (y) (+ y x)))         *)
(* #'(lambda (y) (setq x y)))) (funcall g 4) (f 5))                         *)
TestNoCapture ==
    Progn(<<Setq(sym_G, Let1(<<B(sym_X, N(3))>>, <<Defalias(sym_F, AddX), SetX>>)),
            Funcall1(S(sym_G), N(4)),
            L(<<S(sym_F), N(5)>>)>>)

(* (progn (defalias 'f #'(lambda () x)) (let ((x 1)) (f)))                  *)
TestLexicalScope ==
    Progn(<<Defalias(sym_F, Lambda(<<>>, <<S(sym_X)>>)),
            Let1(<<B(sym_X, N(1))>>, <<L(<<S(sym_F)>>)>>)>>)

(* (let* ((x 1) (f #'(lambda (x) x))) (funcall f 5))                        *)
TestParamShadows ==
    LetStar(<<B(sym_X, N(1)), B(sym_F, Lambda(<<S(sym_X)>>, <<S(sym_X)>>))>>,
            <<Funcall1(S(sym_F), N(5))>>)

(* (let* ((x 1) (y x)) (let ((x 2) (z x)) z))                              *)
TestLetBoth ==
    LetStar(<<B(sym_X, N(1)), B(sym_Y, S(sym_X))>>,
            <<Let1(<<B(sym_X, N(2)), B(sym_Z, S(sym_X))>>, <<S(sym_Z)>>)>>)

(* (let ((x 1)) (let ((x 2)) (setq x 3)) x)                                 *)
TestSetqInner ==
    Let1(<<B(sym_X, N(1))>>,
         <<Let1(<<B(sym_X, N(2))>>, <<Setq(sym_X, N(3))>>), S(sym_X)>>)

(* (progn (setq x 1 y undef z 3) (setq z 4))                                *)
TestSetqError ==
    Progn(<<L(<<S(sym_SETQ), S(sym_X), N(1), S(sym_Y), S(sym_UNDEF), S(sym_Z), N(3)>>),
            Setq(sym_Z, N(4))>>)

(* (setq x 1 y)                                                             *)
TestSetqTrailing ==
    L(<<S(sym_SETQ), S(sym_X), N(1), S(sym_Y)>>)

(* (let ((y 1)) (funcall #'(lambda (x) (let ((z 2)) undef)) 4))             *)
TestErrorInClosure ==
    Let1(<<B(sym_Y, N(1))>>,
         <<Funcall1(Lambda(<<S(sym_X)>>, <<Let1(<<B(sym_Z, N(2))>>, <<S(sym_UNDEF)>>)>>),
                    N(4))>>)

(* a keyword that is let-bound and assigned, and one assigned globally *)
TestKeywordLet == Let1(<<B(sym_KEY, N(1))>>, <<Setq(sym_KEY, N(2)), S(sym_KEY)>>)

TestKeywordGlobal == Progn(<<Setq(sym_KEY, N(5)), S(sym_KEY)>>)

(* (let ((x 1)) undef): a body form fails                                   *)
TestLetBodyError == Let1(<<B(sym_X, N(1))>>, <<S(sym_UNDEF)>>)

(* (let* ((x 1) (y undef)) x): the second initializer of a let* fails       *)
TestLetStarInitError == LetStar(<<B(sym_X, N(1)), B(sym_Y, S(sym_UNDEF))>>, <<S(sym_X)>>)

(* (let ((x 1) (y undef)) x): the second initializer of a let fails         *)
TestLetInitError == Let1(<<B(sym_X, N(1)), B(sym_Y, S(sym_UNDEF))>>, <<S(sym_X)>>)

(* (let ((x 1)) (let* ((y 2)) undef)): a body form that is a let* fails     *)
TestNestedLetError ==
    Let1(<<B(sym_X, N(1))>>, <<LetStar(<<B(sym_Y, N(2))>>, <<S(sym_UNDEF)>>)>>)

ProgramsVariables ==
    << Let1(<<>>, <<>>),
       Let1(<<S(sym_X)>>, <<S(sym_X)>>),
       Let1(<<B(sym_X, N(1))>>, <<S(sym_X)>>),
       Let1(<<B(sym_X, N(1)), B(sym_Y, N(2))>>, <<S(sym_X), S(sym_Y)>>),
       TestShadow,
       Let1(<<B(sym_X, N(1))>>, <<Let1(<<B(sym_Y, N(3))>>, <<S(sym_X)>>)>>),
       Let1(<<B(sym_X, N(1))>>, <<Setq(sym_X, N(2)), S(sym_X)>>),
       LetStar(<<>>, <<>>),
       TestLetStar,
       TestLetParallel,
       Progn(<<Setq(sym_X, N(7)),
               Let1(<<B(sym_X, N(1)), B(sym_Y, S(sym_X))>>, <<S(sym_Y)>>)>>),
       TestSetqInner,
       TestLetBoth,
       Progn(<<Setq(sym_X, N(1)),
               Let1(<<B(sym_Y, N(2))>>, <<Setq(sym_X, N(5))>>), S(sym_X)>>),
       LetStar(<<B(sym_X, N(1)), B(sym_X, N(2)), S(sym_Y)>>,
               <<Setq(sym_Y, S(sym_X)), Setq(sym_Z, S(sym_Y)), S(sym_Z)>>),
       Let1(<<L(<<S(sym_X)>>), L(<<S(sym_Y), N(1), N(2)>>)>>, <<S(sym_X)>>),
       Let1(<<N(1)>>, <<>>),
       LetStar(<<N(1)>>, <<>>),
       Let1(<<B(sym_X, N(1)), L(<<N(2), S(sym_X)>>)>>, <<>>),
       L(<<S(sym_LET)>>),
       TestLetBodyError,
       TestLetStarInitError,
       TestLetInitError,
       TestNestedLetError,
       S(sym_X),
       S(sym_KEY),
       N(1),
       TestKeywordLet,
       TestKeywordGlobal >>

ProgramsSetq ==
    << TestSetqPairs,
       L(<<S(sym_SETQ), N(1), N(2)>>),
       L(<<S(sym_SETQ), S(sym_X)>>),
       L(<<S(sym_SETQ)>>),
       TestSetqTrailing,
       L(<<S(sym_SETQ), S(sym_X), N(1), N(2), N(3)>>),
       Let1(<<B(sym_X, N(1))>>, <<L(<<S(sym_SETQ), S(sym_X), N(2), S(sym_Y)>>)>>),
       L(<<S(sym_SETQ), S(sym_X), S(sym_UNDEF), S(sym_Y), N(2)>>),
       TestSetqError,
       LD(<<S(sym_SETQ)>>, Int_(1)),
       L(<<S(sym_SETQ), N(1)>>),
       L(<<S(sym_DEFVAR), S(sym_X), N(5)>>),
       L(<<S(sym_DEFVAR), S(sym_X)>>),
       L(<<S(sym_DEFVAR)>>),
       L(<<S(sym_DEFVAR), N(1), N(2)>>),
       L(<<S(sym_DEFCONST), S(sym_Y), N(3)>>),
       Let1(<<B(sym_Y, N(1))>>, <<L(<<S(sym_DEFVAR), S(sym_X), S(sym_Y)>>), S(sym_X)>>),
       TestDefvarInLet,
       Let1(<<B(sym_X, N(1))>>, <<L(<<S(sym_DEFCONST), S(sym_X)>>)>>) >>

(* module test test_call: (x &optional y &rest z) applied to 5 7 11, called *)
(* under a binding of y                                                     *)
XYZ == Lambda(<<S(sym_X), S(sym_AND_OPTIONAL), S(sym_Y), S(sym_AND_REST), S(sym_Z)>>,
              <<Call2(sym_CONS, S(sym_X), Call2(sym_CONS, S(sym_Y), S(sym_Z)))>>)

TestRestArgs ==
    Let1(<<B(sym_Y, N(1))>>, <<L(<<S(sym_FUNCALL), XYZ, N(5), N(7), N(11)>>)>>)

(* the same closure applied to 5 alone: y and z get no argument *)
TestRestEmpty == L(<<S(sym_FUNCALL), XYZ, N(5)>>)

TestOptionalMissing ==
    L(<<S(sym_FUNCALL), Lambda(<<S(sym_X), S(sym_AND_OPTIONAL), S(sym_Y)>>, <<S(sym_Y)>>),
        N(5)>>)

TestTooManyArgs ==
    L(<<S(sym_FUNCALL), Lambda(<<S(sym_X)>>, <<Setq(sym_G, N(1))>>), N(5), N(6)>>)

TestTooFewArgs ==
    Let1(<<B(sym_Y, N(1))>>,
         <<Funcall0(Lambda(<<S(sym_X)>>, <<Setq(sym_G, N(1))>>))>>)

(* module test test_functions: (function (lambda)) *)
TestEmptyLambda == Fn(L(<<S(sym_LAMBDA)>>))

(* module test test_functions, with a second variable: a closure made under *)
(* two bindings                                                             *)
TestClosureEnv ==
    Let1(<<B(sym_Y, N(1)), B(sym_Z, N(2))>>, <<Lambda(<<S(sym_X)>>, <<S(sym_X)>>)>>)

(* the arguments of a native call assign x in turn: 2 then 4 from left to   *)
(* right                                                                    *)
TestArgOrder ==
    Progn(<<Setq(sym_X, N(1)),
            Call2(sym_CONS, Setq(sym_X, Call2(sym_PLUS, S(sym_X), N(1))),
                            Setq(sym_X, Call2(sym_PLUS, S(sym_X), S(sym_X))))>>)

(* a compiled function called on two argument forms *)
TestCompiled == L(<<S(sym_COMPILED), Call2(sym_PLUS, N(1), N(2)), N(4)>>)

(* (cons 'macro (function (lambda (x) BODY))): a macro definition *)
MacroOf(body) == Call2(sym_CONS, Q(S(sym_MACRO)), Lambda(<<S(sym_X)>>, <<body>>))

(* a macro whose transform returns its argument form, called under a let *)
TestMacroIdentity ==
    Progn(<<Defalias(sym_G, MacroOf(S(sym_X))),
            Let1(<<B(sym_Y, N(5))>>, <<L(<<S(sym_G), Call2(sym_PLUS, S(sym_Y), N(1))>>)>>)>>)

(* a macro whose transform ignores its argument form, which has no value *)
TestMacroIgnores ==
    Progn(<<Defalias(sym_F, MacroOf(N(7))), L(<<S(sym_F), S(sym_UNDEF)>>)>>)

(* calls that cannot be made, with an argument that would assign x: the    *)
(* head has no function, the head is not a symbol, the head's function is   *)
(* a list that is no closure                                                *)
TestVoidFunction == L(<<S(sym_UNDEF), Setq(sym_X, N(1))>>)

TestInvalidHead == L(<<L(<<N(1)>>), Setq(sym_X, N(1))>>)

TestNotClosure ==
    Progn(<<Defalias(sym_F, Q(L(<<S(sym_LAMBDA), Nil>>))), L(<<S(sym_F), Setq(sym_X, N(1))>>)>>)

ProgramsCall ==
    << Let1(<<B(sym_X, Lambda(<<S(sym_X)>>, <<S(sym_X)>>))>>,
            <<Funcall1(S(sym_X), N(5))>>),
       Let1(<<B(sym_X, Lambda(<<>>, <<N(3)>>))>>, <<Funcall0(S(sym_X))>>),
       Progn(<<Defalias(sym_F, Lambda(<<S(sym_X)>>, <<Call2(sym_PLUS, S(sym_X), N(3))>>)),
               L(<<S(sym_F), N(7)>>)>>),
       LetStar(<<B(sym_Y, N(7)), B(sym_X, Lambda(<<>>, <<S(sym_Y)>>))>>,
               <<Funcall0(S(sym_X))>>),
       LetStar(<<B(sym_Y, N(7)),
                 B(sym_X, Lambda(<<S(sym_X)>>, <<Call2(sym_PLUS, S(sym_X), S(sym_Y))>>))>>,
               <<Funcall1(S(sym_X), N(3))>>),
       Progn(<<Setq(sym_F, Let1(<<B(sym_X, N(3))>>, <<AddX>>)),
               Funcall1(S(sym_F), N(5))>>),
       TestSharedClosures,
       TestNoCapture,
       TestLexicalScope,
       Progn(<<Setq(sym_X, N(9)), Defalias(sym_F, Lambda(<<>>, <<S(sym_X)>>)),
               Let1(<<B(sym_X, N(1))>>, <<L(<<S(sym_F)>>)>>)>>),
       TestParamShadows,
       LetStar(<<B(sym_X, N(1)), B(sym_F, Lambda(<<S(sym_Y)>>, <<Setq(sym_X, S(sym_Y))>>))>>,
               <<Let1(<<B(sym_X, N(2))>>, <<Funcall1(S(sym_F), N(5)), S(sym_X)>>)>>),
       TestTooFewArgs,
       Let1(<<B(sym_Y, N(1))>>, <<Funcall0(Lambda(<<>>, <<S(sym_UNDEF)>>))>>),
       TestErrorInClosure,
       TestRestArgs,
       TestRestEmpty,
       TestOptionalMissing,
       TestTooManyArgs,
       L(<<S(sym_FUNCALL), Lambda(<<S(sym_X), S(sym_AND_OPTIONAL), S(sym_Y)>>, <<S(sym_Y)>>),
           N(5), N(6), N(7)>>),
       Funcall1(N(3), N(4)),
       Funcall0(Q(L(<<S(sym_X), N(1)>>))),
       Funcall0(Q(L(<<S(sym_CLOSURE), L(<<N(1)>>), Nil>>))),
       L(<<S(sym_FUNCTION), N(1)>>),
       L(<<S(sym_FUNCTION), Q(L(<<S(sym_X), S(sym_UNDEF)>>))>>),
       L(<<S(sym_FUNCTION)>>),
       L(<<S(sym_FUNCTION), N(1), N(2)>>),
       TestEmptyLambda,
       TestClosureEnv,
       TestVoidFunction,
       TestInvalidHead,
       TestNotClosure,
       TestMacroIdentity,
       TestMacroIgnores,
       Progn(<<Defalias(sym_F, MacroOf(N(7))), L(<<S(sym_F)>>)>>),
       Progn(<<Defalias(sym_G, MacroOf(S(sym_X))), L(<<S(sym_G), S(sym_UNDEF)>>)>>),
       Progn(<<Defalias(sym_G, MacroOf(S(sym_X))), LD(<<S(sym_G), N(1)>>, Int_(2))>>),
       TestCompiled,
       TestArgOrder,
       L(<<S(sym_CONS), N(1), S(sym_UNDEF), N(3)>>),
       L(<<S(sym_CAR), S(sym_UNDEF)>>),
       L(<<S(sym_CAR), N(1)>>),
       L(<<S(sym_DEFALIAS), N(1), N(2)>>) >>

(* module test conditionals, (and 1 nil) and (or nil 1), followed by a form *)
(* that has no value                                                        *)
TestAndStops == L(<<S(sym_AND), N(1), Nil, S(sym_UNDEF)>>)

TestOrStops == L(<<S(sym_OR), Nil, N(1), S(sym_UNDEF)>>)

(* module test conditionals: (if nil 1 2 3), and (if t 1 2) with forms that *)
(* have no value in the branch not taken                                    *)
TestIfElse == L(<<S(sym_IF), Nil, S(sym_UNDEF), N(2), N(3)>>)

TestIfThen == L(<<S(sym_IF), T, N(1), S(sym_UNDEF)>>)

(* module test conditionals, (cond (nil 1) (2 3) (4 5)), with forms that    *)
(* have no value where nothing is to be evaluated, and a longer clause      *)
TestCondSecond ==
    L(<<S(sym_COND), L(<<Nil, S(sym_UNDEF)>>), L(<<N(2), N(1), N(3)>>),
        L(<<S(sym_UNDEF), N(5)>>)>>)

(* a loop over the list (1 2) that counts its iterations in y *)
TestWhileTwice ==
    Progn(<<Setq(sym_Y, N(0)),
            Let1(<<B(sym_X, Call2(sym_CONS, N(1), Call2(sym_CONS, N(2), Nil)))>>,
                 <<L(<<S(sym_WHILE), S(sym_X),
                       Setq(sym_Y, Call2(sym_PLUS, S(sym_Y), N(1))),
                       Setq(sym_X, L(<<S(sym_CDR), S(sym_X)>>))>>)>>),
            S(sym_Y)>>)

(* module test special_forms: (prog1 1 2 3) and (prog2 1 2 3) *)
TestProg1 == L(<<S(sym_PROG1), N(1), N(2), N(3)>>)

TestProg2 == L(<<S(sym_PROG2), N(1), N(2), N(3)>>)

ProgramsControl ==
    << TestIfElse,
       TestIfThen,
       L(<<S(sym_IF), S(sym_UNDEF), N(1), N(2)>>),
       L(<<S(sym_IF), Nil, N(1)>>),
       L(<<S(sym_IF), N(1)>>),
       L(<<S(sym_IF)>>),
       L(<<S(sym_AND)>>),
       TestAndStops,
       L(<<S(sym_AND), N(1), N(2)>>),
       L(<<S(sym_OR)>>),
       TestOrStops,
       L(<<S(sym_OR), Nil, Nil>>),
       L(<<S(sym_COND)>>),
       L(<<S(sym_COND), L(<<N(1)>>)>>),
       TestCondSecond,
       L(<<S(sym_COND), L(<<Nil, N(1)>>), L(<<Nil>>)>>),
       L(<<S(sym_COND), L(<<N(1), N(2), S(sym_UNDEF), N(3)>>)>>),
       L(<<S(sym_COND), Nil, N(1)>>),
       Let1(<<B(sym_X, T)>>, <<L(<<S(sym_WHILE), S(sym_X), Setq(sym_X, Nil)>>)>>),
       L(<<S(sym_WHILE)>>),
       TestWhileTwice,
       L(<<S(sym_WHILE), Nil, S(sym_UNDEF)>>),
       L(<<S(sym_WHILE), T, N(1), S(sym_UNDEF), N(2)>>),
       TestProg1,
       TestProg2,
       L(<<S(sym_PROG1)>>),
       L(<<S(sym_PROG1), N(1), S(sym_UNDEF), N(3)>>),
       Progn(<<N(1), N(2), N(3)>>),
       L(<<S(sym_PROG2), N(1)>>),
       Progn(<<>>),
       LD(<<S(sym_PROGN), N(1)>>, Int_(2)),
       Q(L(<<N(1), N(2)>>)),
       L(<<S(sym_QUOTE)>>) >>

Programs == ProgramsVariables \o ProgramsSetq \o ProgramsCall \o ProgramsControl

(* the `lexical` argument of eval: absent, t, nil, or something else *)
Lexicals == {Unbound, TRUE_, NIL, Int_(1), SymObj(sym_X)}

-----------------------------------------------------------------------------
(* Value words.  A 64-bit integer is the sequence of its eight bytes, least *)
(* significant first (i64::to_le_bytes), so that shifts and truncations     *)
(* lose exactly the bits the machine loses.                                 *)

(* the i64 whose low byte is n and whose other bytes are zero *)
I64(n) == [i \in 1..8 |-> IF i = 1 THEN n ELSE 0]

(* bits << 1 *)
Shl1(x) == [i \in 1..8 |-> ((2 * x[i]) % 256) + (IF i > 1 THEN x[i - 1] \div 128 ELSE 0)]

(* bits >> 1 on a signed integer: the sign bit is kept *)
Sar1(x) ==
    [i \in 1..8 |-> (x[i] \div 2) + 128 * (IF i < 8 THEN x[i + 1] % 2 ELSE x[8] \div 128)]

RECURSIVE Shl(_, _)
Shl(x, n) == IF n = 0 THEN x ELSE Shl(Shl1(x), n - 1)

RECURSIVE Sar(_, _)
Sar(x, n) == IF n = 0 THEN x ELSE Sar(Sar1(x), n - 1)

RECURSIVE OrByte(_, _)
OrByte(a, b) ==
    IF a = 0 THEN b
    ELSE IF b = 0 THEN a
    ELSE (IF a % 2 = 1 \/ b % 2 = 1 THEN 1 ELSE 0) + 2 * OrByte(a \div 2, b \div 2)

(* x | y *)
BitOr(x, y) == [i \in 1..8 |-> OrByte(x[i], y[i])]

(* enum Tag, #[repr(u8)] *)
Tag ==
    [Symbol |-> 0, Int |-> 1, Float |-> 2, True |-> 3, Nil |-> 4,
     Cons |-> 5, String |-> 6, LispFn |-> 7, SubrFn |-> 8]

TAG_SIZE == 8

(* InnerObject::from_tag_bits, with the check of InnerObject::new that the  *)
(* word is not zero                                                         *)
from_tag_bits(bits, tag) ==
    LET w == BitOr(Shl(bits, TAG_SIZE), I64(tag))
    IN [ok |-> w # I64(0), bits |-> w]

(* InnerObject::tag: the low byte of the word *)
tag_of(w) == w[1]

(* InnerObject::val for Tag::Int, and get_ptr for the pointer variants *)
val_bits(w) == Sar(w, TAG_SIZE)

(* Data::from_raw: the top byte of the integer is dropped *)
from_raw(bits) == [data |-> SubSeq(bits, 1, 7)]

(* Data::into_raw *)
into_raw(d) ==
    LET whole == [i \in 1..8 |-> IF i = 1 THEN 0 ELSE d.data[i - 1]]
    IN Sar(whole, 8)

UNUSED == from_raw(I64(0))

immut_bit_pattern(ptr) == BitOr(Shl1(ptr), I64(1))

mut_bit_pattern(ptr) == Shl1(ptr)

(* a from_ref that leaves the flag clear *)
from_ref_mutable(rf) == from_raw(mut_bit_pattern(rf))

from_ref(rf) == from_raw(immut_bit_pattern(rf))

from_mut_ref(rf) == from_raw(mut_bit_pattern(rf))

(* Data::inner_mut: Some(pointer) when the flag is clear *)
inner_mut(d) ==
    LET bits == into_raw(d)
    IN IF bits[1] % 2 = 0
       THEN [some |-> TRUE, ptr |-> Sar1(bits)]
       ELSE [some |-> FALSE, ptr |-> I64(0)]

make_read_only(d) == [d EXCEPT !.data[1] = OrByte(@, 1)]

(* Inner<&T>::inner *)
inner(d) == Sar1(into_raw(d))

(* Data<i64>::from_int and Inner<i64>::inner *)
from_int(x) == from_raw(x)

inner_int(d) == into_raw(d)

(* the address of the i-th symbol record the intern table created *)
SymbolAddr(i) == <<(8 * i) % 256, ((8 * i) \div 256) % 256, 0, 0, 0, 1, 0, 0>>

(* an intern that makes a new symbol record at every call *)
symbol_intern_fresh(names, name) ==
    [names |-> Append(names, name), sym |-> SymbolAddr(Len(names) + 1)]

(* intern(name): the canonical symbol of the name, created and stored on    *)
(* first use                                                                *)
symbol_intern(names, name) ==
    IF \E i \in DOMAIN names : names[i] = name
    THEN [names |-> names, sym |-> SymbolAddr(CHOOSE i \in DOMAIN names : names[i] = name)]
    ELSE [names |-> Append(names, name), sym |-> SymbolAddr(Len(names) + 1)]

(* a Symbol made into an Object: InnerObject::from_ptr(symbol, Tag::Symbol) *)
symbol_into(sym) == from_tag_bits(sym, Tag.Symbol).bits

(* the names interned *)
Names == {"foo", "bar", "1+"}

(* The addresses of the objects words are built from: aligned, not null,    *)
(* in the lower half of a 48-bit address space.                             *)
Pointers ==
    { <<b1, b2, 0, 0, 0, b6, 0, 0>> : b1 \in {8, 16, 248}, b2 \in {0, 255}, b6 \in {0, 1, 127} }

(* The integers words are built from: small ones of both signs, and the     *)
(* ones around the ends of the 56-bit and the 64-bit range.                 *)
Ints ==
    { <<b1, m, m, m, m, m, b7, b8>> :
        b1 \in {0, 1, 3, 255}, m \in {0, 255}, b7 \in {0, 127, 128, 255}, b8 \in {0, 127, 128, 255} }

-----------------------------------------------------------------------------
(* Initial state: a default Environment, the natives bound, nothing running *)

Init ==
    /\ heap = <<>>
    /\ globals = [s \in SymIds |-> Unbound]
    /\ funcs = [s \in SymIds |-> IF s \in Subrs THEN SubrObj(s)
                                ELSE IF s = sym_COMPILED THEN LispFnObj(s)
                                ELSE Unbound]
    /\ frames = <<>>
    /\ kont = <<>>
    /\ ctl = Ctl("idle", NIL, NoErr)
    /\ evals = 0
    /\ prog = 0
    /\ last = "Init"
    /\ made = <<>>
    /\ log = <<>>
    /\ word = [how |-> "unused", given |-> I64(0), data |-> UNUSED, bits |-> I64(0)]
    /\ obarray = [names |-> <<>>, calls |-> <<>>]

(* an eval that takes every lexical argument *)
EvalAnyLexical(p, lexical) ==
    /\ ctl.m \in {"idle", "done", "failed"}
    /\ evals < MaxEvals
    /\ LET r == Read(heap, Programs[p])
       IN /\ heap' = r.h
          /\ frames' = << <<>> >>
          /\ ctl' = EvalC(r.o)
    /\ kont' = <<>>
    /\ evals' = evals + 1
    /\ prog' = p
    /\ last' = "Eval"
    /\ log' = <<[m |-> "eval", d |-> 0, o |-> ctl'.o]>>
    /\ UNCHANGED <<globals, funcs, made, words>>

(* eval(form, lexical, env, arena): the form is read into the arena, and    *)
(* evaluated by a new Interpreter with an empty lexical stack unless the    *)
(* lexical argument is rejected                                             *)
Eval(p, lexical) ==
    /\ ctl.m \in {"idle", "done", "failed"}
    /\ evals < MaxEvals
    /\ LET r == Read(heap, Programs[p])
       IN /\ heap' = r.h
          /\ IF lexical \in {Unbound, TRUE_, NIL}
             THEN /\ frames' = << <<>> >>
                  /\ ctl' = EvalC(r.o)
             ELSE /\ frames' = <<>>
                  /\ ctl' = Ctl("failed", NIL, Err("LexicalEnvUnsupported", 0, 0))
    /\ kont' = <<>>
    /\ evals' = evals + 1
    /\ prog' = p
    /\ last' = "Eval"
    /\ log' = IF ctl'.m = "eval" THEN <<[m |-> "eval", d |-> 0, o |-> ctl'.o]>> ELSE <<>>
    /\ UNCHANGED <<globals, funcs, made, words>>

(* interpreter.eval_form(form) has returned to eval: the Interpreter is dropped *)
EvalReturn ==
    /\ ctl.m \in {"ret", "err"}
    /\ kont = <<>>
    /\ Go("EvalReturn", heap, <<>>, kont,
          IF ctl.m = "ret" THEN Ctl("done", ctl.o, NoErr) ELSE Ctl("failed", NIL, ctl.e))

(* eval_form: anything but a symbol or a cons evaluates to itself *)
EvalSelf ==
    /\ ctl.m = "eval"
    /\ ctl.o.t \notin {"sym", "cons"}
    /\ Go("EvalSelf", heap, frames, kont, RetC(ctl.o))

(* eval_form on a symbol: var_ref *)
EvalSymbol ==
    /\ ctl.m = "eval"
    /\ IsSym(ctl.o)
    /\ LET r == var_ref(heap, globals, CurVars, ctl.o.v)
       IN Go("EvalSymbol", heap, frames, kont, IF r.ok THEN RetC(r.val) ELSE ErrC(r.err))

(* a form with a non-symbol head whose head is evaluated *)
EvalSexpEvaluatesHead ==
    /\ ctl.m = "eval"
    /\ IsCons(ctl.o)
    /\ ~IsSym(Car(heap, ctl.o))
    /\ Go("EvalSexpInvalid", heap, frames, kont, EvalC(Car(heap, ctl.o)))

(* eval_sexp: the car of the form is not a symbol *)
EvalSexpInvalid ==
    /\ ctl.m = "eval"
    /\ IsCons(ctl.o)
    /\ ~IsSym(Car(heap, ctl.o))
    /\ Go("EvalSexpInvalid", heap, frames, kont, ErrC(Err("InvalidFunction", 0, 0)))

(* Interpreter::quote *)
Quote ==
    /\ AtForm(sym_QUOTE)
    /\ LET value == Cdr(heap, ctl.o)
           n == ListLen(heap, value)
       IN Go("Quote", heap, frames, kont,
             IF ~IsList(value) THEN ErrC(TypeErr("Type:List"))
             ELSE IF n # 1 THEN ErrC(ArgCount(1, n % 65536))
             ELSE IF ~IterNext(heap, value).ok THEN ErrC(Err("ImproperList", 0, 0))
             ELSE RetC(Car(heap, value)))

-----------------------------------------------------------------------------
(* implicit_progn, progn, prog1, prog2                                     *)

(* the handler that runs implicit_progn over the forms *)
PrognK(forms) == [KF("progn") EXCEPT !.o = forms, !.src = forms]

(* Interpreter::eval_progn *)
EvalProgn ==
    /\ AtForm(sym_PROGN)
    /\ LET obj == Cdr(heap, ctl.o)
       IN IF ~IsList(obj)
          THEN Go("EvalProgn", heap, frames, kont, ErrC(TypeErr("Type:List")))
          ELSE Go("EvalProgn", heap, frames, Push(PrognK(obj)), StepC)

(* implicit_progn: the next form, or the last value when none is left *)
PrognStep ==
    /\ Resuming("progn")
    /\ LET n == IterNext(heap, Top.o)
       IN IF ~n.some THEN Go("PrognStep", heap, frames, Pop, RetC(Top.p))
          ELSE IF ~n.ok
          THEN Go("PrognStep", heap, frames, kont, ErrC(Err("ImproperList", 0, 0)))
          ELSE Go("PrognStep", heap, frames, Replace([Top EXCEPT !.o = n.rest]), EvalC(n.val))

(* implicit_progn: last = self.eval_form(form?)? *)
PrognRet ==
    /\ Returning("progn")
    /\ Go("PrognRet", heap, frames, Replace([Top EXCEPT !.p = ctl.o]), StepC)

(* Interpreter::eval_progx for prog1 and prog2 *)
EvalProgx ==
    /\ AtForm(sym_PROG1) \/ AtForm(sym_PROG2)
    /\ LET obj == Cdr(heap, ctl.o)
           prog_num == IF AtForm(sym_PROG1) THEN 1 ELSE 2
       IN IF ~IsList(obj)
          THEN Go("EvalProgx", heap, frames, kont, ErrC(TypeErr("Type:List")))
          ELSE Go("EvalProgx", heap, frames,
                  Push([KF("progx") EXCEPT !.o = obj, !.n2 = prog_num, !.src = obj]), StepC)

ProgxStep ==
    /\ Resuming("progx")
    /\ LET n == IterNext(heap, Top.o)
       IN IF ~n.some
          THEN Go("ProgxStep", heap, frames, Pop,
                  IF Top.flag THEN RetC(Top.p) ELSE ErrC(ArgCount(Top.n2, Top.n)))
          ELSE IF ~n.ok
          THEN Go("ProgxStep", heap, frames, kont, ErrC(Err("ImproperList", 0, 0)))
          ELSE Go("ProgxStep", heap, frames, Replace([Top EXCEPT !.o = n.rest]), EvalC(n.val))

(* a prog1 or prog2 that keeps the value of every form *)
ProgxRetLast ==
    /\ Returning("progx")
    /\ Go("ProgxRet", heap, frames,
          Replace([Top EXCEPT !.n = Top.n + 1, !.p = ctl.o, !.flag = TRUE]), StepC)

(* eval_progx: the value of a form; count += 1 *)
ProgxRet ==
    /\ Returning("progx")
    /\ LET count == Top.n + 1
       IN Go("ProgxRet", heap, frames,
             Replace(IF Top.n2 = count
                     THEN [Top EXCEPT !.n = count, !.p = ctl.o, !.flag = TRUE]
                     ELSE [Top EXCEPT !.n = count]),
             StepC)

-----------------------------------------------------------------------------
(* let and let*                                                            *)

(* every binding pushed at once, in let as in let* *)
LetPushSerial(parallel, vs, let_bindings, cell) ==
    [vs |-> Append(vs, cell), let_bindings |-> let_bindings]

(* where a new binding cell goes: let* pushes it on the lexical stack at    *)
(* once, let collects it in let_bindings until every initializer has run    *)
LetPush(parallel, vs, let_bindings, cell) ==
    IF parallel
    THEN [vs |-> vs, let_bindings |-> Append(let_bindings, cell)]
    ELSE [vs |-> Append(vs, cell), let_bindings |-> let_bindings]

(* self.vars.append(&mut let_bindings) at the end of let_bind_parallel *)
LetAppend(vs, let_bindings) == vs \o let_bindings

(* one binding popped, however many were pushed *)
TruncateOne(vs, prev_len) == SubSeq(vs, 1, Len(vs) - 1)

(* self.vars.truncate(prev_len) *)
Truncate(vs, prev_len) == IF prev_len < Len(vs) THEN SubSeq(vs, 1, prev_len) ELSE vs

(* Interpreter::eval_let up to the call of let_bind_parallel or            *)
(* let_bind_serial, which start to iterate over the bindings                *)
EvalLet ==
    /\ AtForm(sym_LET) \/ AtForm(sym_LET_STAR)
    /\ LET form == Cdr(heap, ctl.o)
           x == IterNext(heap, form)
           k == [KF("let_bind") EXCEPT !.flag = AtForm(sym_LET), !.o = x.val,
                                       !.o2 = x.rest, !.n = Len(CurVars),
                                       !.saved = CurVars]
       IN IF ~IsList(form)
          THEN Go("EvalLet", heap, frames, kont, ErrC(TypeErr("Type:List")))
          ELSE IF ~x.some
          THEN Go("EvalLet", heap, frames, kont, ErrC(ArgCount(1, 0)))
          ELSE IF ~x.ok
          THEN Go("EvalLet", heap, frames, kont, ErrC(Err("ImproperList", 0, 0)))
          ELSE IF ~IsList(x.val)
          THEN Go("EvalLet", heap, frames, kont, ErrC(TypeErr("Type:List")))
          ELSE Go("EvalLet", heap, frames, Push(k), StepC)

(* let_bind_value after the value is known: the cell (name . value), or a   *)
(* type error when the car of the binding is not a symbol                   *)
LetBindCell(step, binding, value, rest) ==
    LET name == Car(heap, binding)
        c == Alloc(heap, name, value)
        to == LetPush(Top.flag, CurVars, Top.cells, c.o.v)
    IN IF ~IsSym(name)
       THEN Go(step, heap, frames, kont, ErrC(TypeErr("Type:Symbol")))
       ELSE Go(step, c.h, SetVars(to.vs),
               Replace([Top EXCEPT !.cells = to.let_bindings, !.o = rest,
                                   !.vals = Append(Top.vals, c.o.v)]), StepC)

(* one iteration of the loop of let_bind_parallel / let_bind_serial, up to  *)
(* the evaluation of the initializer; after the last binding eval_let goes  *)
(* on to the body                                                           *)
LetBindStep ==
    /\ Resuming("let_bind")
    /\ LET n == IterNext(heap, Top.o)
           binding == n.val
           inits == Cdr(heap, binding)
           bare == Alloc(heap, binding, NIL)
           to == LetPush(Top.flag, CurVars, Top.cells, bare.o.v)
           k == [Top EXCEPT !.o = n.rest]
       IN IF ~n.some
          THEN Go("LetBindStep", heap,
                     IF Top.flag THEN SetVars(LetAppend(CurVars, Top.cells)) ELSE frames,
                     Append(Replace([KF("let_body") EXCEPT !.n = Top.n, !.saved = Top.saved,
                                                          !.flag = Top.flag,
                                                          !.vals = Top.vals]),
                            PrognK(Top.o2)),
                     StepC)
          ELSE IF ~n.ok
          THEN Go("LetBindStep", heap, frames, kont, ErrC(Err("ImproperList", 0, 0)))
          ELSE IF IsCons(binding)
          THEN IF ~IsList(inits)
               THEN Go("LetBindStep", heap, frames, kont, ErrC(TypeErr("Type:List")))
               ELSE IF ListLen(heap, inits) = 0
               THEN LetBindCell("LetBindStep", binding, NIL, n.rest)
               ELSE IF ListLen(heap, inits) = 1
               THEN IF ~IterNext(heap, inits).ok
                    THEN Go("LetBindStep", heap, frames, kont, ErrC(Err("ImproperList", 0, 0)))
                    ELSE Go("LetBindStep", heap, frames, Replace([k EXCEPT !.p = binding]),
                            EvalC(Car(heap, inits)))
               ELSE Go("LetBindStep", heap, frames, kont, ErrC(Err("LetBindingOneValue", 0, 0)))
          ELSE IF IsSym(binding)
          THEN Go("LetBindStep", bare.h, SetVars(to.vs),
                  Replace([k EXCEPT !.cells = to.let_bindings,
                                    !.vals = Append(Top.vals, bare.o.v)]), StepC)
          ELSE Go("LetBindStep", heap, frames, kont, ErrC(TypeErr("Type:Cons")))

(* let_bind_value with the value of the initializer: the binding is made *)
LetBindRet ==
    /\ Returning("let_bind")
    /\ LetBindCell("LetBindRet", Top.p, ctl.o, Top.o)

(* eval_let after the body: the bindings of the form are popped *)
LetBodyRet ==
    /\ Returning("let_body")
    /\ Go("LetBodyRet", heap, SetVars(Truncate(CurVars, Top.n)), Pop, RetC(ctl.o))

-----------------------------------------------------------------------------
(* setq, defvar, defconst                                                  *)

(* a loop that takes a trailing variable as a pair whose value is nil *)
SetqPairLenient(h, it, arg_cnt) ==
    LET first == IterNext(h, it)
    IN IF ~first.some THEN [act |-> "break", err |-> NoErr]
       ELSE IF ~first.ok THEN [act |-> "fail", err |-> Err("ImproperList", 0, 0)]
       ELSE [act |-> "assign", err |-> NoErr]

(* Interpreter::pairs and the match of setq on its result: what the loop    *)
(* of setq does with the next pair of the iterator                          *)
SetqPair(h, it, arg_cnt) ==
    LET first == IterNext(h, it)
        second == IterNext(h, first.rest)
    IN IF ~first.some THEN [act |-> "break", err |-> NoErr]
       ELSE IF ~first.ok THEN [act |-> "fail", err |-> Err("ImproperList", 0, 0)]
       ELSE IF second.some /\ ~second.ok
       THEN [act |-> "fail", err |-> Err("ImproperList", 0, 0)]
       ELSE IF ~second.some
       THEN [act |-> "fail", err |-> ArgCount(arg_cnt, arg_cnt + 1)]
       ELSE IF IsSym(first.val) THEN [act |-> "assign", err |-> NoErr]
       ELSE [act |-> "fail", err |-> TypeErr("Type:Symbol")]

(* Interpreter::setq up to its loop *)
EvalSetq ==
    /\ AtForm(sym_SETQ)
    /\ LET obj == Cdr(heap, ctl.o)
       IN IF ~IsList(obj)
          THEN Go("EvalSetq", heap, frames, kont, ErrC(TypeErr("Type:List")))
          ELSE Go("EvalSetq", heap, frames, Push([KF("setq") EXCEPT !.o = obj]), StepC)

(* one iteration of the loop of setq, up to the evaluation of the value     *)
(* form; after the last pair, the last value assigned                       *)
SetqStep ==
    /\ Resuming("setq")
    /\ LET pr == SetqPair(heap, Top.o, Top.n)
           first == IterNext(heap, Top.o)
           second == IterNext(heap, first.rest)
       IN IF pr.act = "break"
          THEN Go("SetqStep", heap, frames, Pop,
                  IF Top.flag THEN RetC(Top.p) ELSE ErrC(ArgCount(2, 0)))
          ELSE IF pr.act = "fail"
          THEN Go("SetqStep", heap, frames, kont, ErrC(pr.err))
          ELSE Go("SetqStep", heap, frames,
                  Replace([Top EXCEPT !.o = second.rest, !.o2 = first.val]),
                  EvalC(second.val))

(* last_value = Some(self.var_set(var, val)); arg_cnt += 2 *)
SetqRet ==
    /\ Returning("setq")
    /\ LET r == var_set(heap, globals, CurVars, Top.o2.v, ctl.o)
       IN /\ heap' = r.h
          /\ globals' = r.g
          /\ kont' = Replace([Top EXCEPT !.p = ctl.o, !.flag = TRUE, !.n = Top.n + 2])
          /\ ctl' = StepC
          /\ last' = "SetqRet"
          /\ UNCHANGED <<funcs, frames, evals, prog, made, log, words>>

(* Interpreter::defvar, for defvar and defconst: up to the evaluation of    *)
(* the value form, or to the end when there is none                         *)
EvalDefvar ==
    /\ AtForm(sym_DEFVAR) \/ AtForm(sym_DEFCONST)
    /\ LET obj == Cdr(heap, ctl.o)
           x == IterNext(heap, obj)
           value == IterNext(heap, x.rest)
           r == var_set(heap, globals, CurVars, x.val.v, NIL)
           fail(e) == /\ ctl' = ErrC(e)
                      /\ UNCHANGED <<heap, globals, kont>>
       IN /\ IF ~IsList(obj) THEN fail(TypeErr("Type:List"))
             ELSE IF ~x.some THEN fail(ArgCount(1, 0))
             ELSE IF ~x.ok THEN fail(Err("ImproperList", 0, 0))
             ELSE IF ~IsSym(x.val) THEN fail(TypeErr("Type:Symbol"))
             ELSE IF ~value.some
             THEN /\ heap' = r.h
                  /\ globals' = r.g
                  /\ ctl' = RetC(NIL)
                  /\ kont' = kont
             ELSE IF ~value.ok THEN fail(Err("ImproperList", 0, 0))
             ELSE /\ kont' = Push([KF("defvar") EXCEPT !.o2 = x.val])
                  /\ ctl' = EvalC(value.val)
                  /\ UNCHANGED <<heap, globals>>
          /\ last' = "EvalDefvar"
          /\ log' = Logged(kont', ctl')
          /\ UNCHANGED <<funcs, frames, evals, prog, made, words>>

(* Ok(self.var_set(name, value)) *)
DefvarRet ==
    /\ Returning("defvar")
    /\ LET r == var_set(heap, globals, CurVars, Top.o2.v, ctl.o)
       IN /\ heap' = r.h
          /\ globals' = r.g
          /\ kont' = Pop
          /\ ctl' = RetC(ctl.o)
          /\ last' = "DefvarRet"
          /\ log' = Logged(kont', ctl')
          /\ UNCHANGED <<funcs, frames, evals, prog, made, words>>

-----------------------------------------------------------------------------
(* function, calls                                                         *)

(* Interpreter::eval_function *)
EvalFunction ==
    /\ AtForm(sym_FUNCTION)
    /\ LET r == eval_function(heap, CurVars, Cdr(heap, ctl.o))
       IN /\ heap' = r.h
          /\ ctl' = IF r.ok THEN RetC(r.o) ELSE ErrC(r.err)
          /\ made' = IF r.ok /\ r.h # heap
                     THEN Append(made, [clo |-> r.o, scope |-> CurVars])
                     ELSE made
    /\ last' = "EvalFunction"
    /\ log' = Logged(kont, ctl')
    /\ UNCHANGED <<globals, funcs, frames, kont, evals, prog, words>>

(* the form is a call: its head is a symbol that names no special form *)
AtCall == ctl.m = "eval" /\ IsCons(ctl.o) /\ IsSym(Car(heap, ctl.o))
          /\ Car(heap, ctl.o).v \notin SpecialForms

(* Interpreter::eval_call up to the evaluation of the arguments *)
EvalCall ==
    /\ AtCall
    /\ LET name == Car(heap, ctl.o)
           obj == Cdr(heap, ctl.o)
           func == resolve_callable(funcs, name.v)
       IN IF func = Unbound
          THEN Go("EvalCall", heap, frames, kont, ErrC(Err("VoidFunction", name.v, 0)))
          ELSE IF IsMacro(heap, func)
          THEN IF ~IsList(obj)
               THEN Go("EvalCall", heap, frames, kont, ErrC(TypeErr("Type:List")))
               ELSE IF ~Proper(heap, obj)
               THEN Go("EvalCall", heap, frames, kont, ErrC(Err("ImproperList", 0, 0)))
               ELSE Go("EvalCall", heap, Append(frames, <<>>),
                       kont \o << [KF("macro") EXCEPT !.o2 = name, !.p = func, !.src = obj,
                                                      !.saved = CurVars],
                                  [KF("call") EXCEPT !.p = Cdr(heap, func),
                                                     !.vals = ListElems(heap, obj),
                                                     !.saved = CurVars] >>,
                       StepC)
          ELSE IF IsCons(func) /\ Car(heap, func) # SymObj(sym_CLOSURE)
          THEN Go("EvalCall", heap, frames, kont, ErrC(Err("InvalidFunction", 0, 0)))
          ELSE IF ~IsList(obj)
          THEN Go("EvalCall", heap, frames, kont, ErrC(TypeErr("Type:List")))
          ELSE Go("EvalCall", heap, frames,
                  Push([KF("args") EXCEPT !.o = obj, !.o2 = name, !.p = func, !.src = obj]), StepC)

(* eval_args: the next argument form is evaluated *)
ArgsStep ==
    /\ Resuming("args")
    /\ IterNext(heap, Top.o).some
    /\ LET n == IterNext(heap, Top.o)
       IN IF ~n.ok
          THEN Go("ArgsStep", heap, frames, kont, ErrC(Err("ImproperList", 0, 0)))
          ELSE Go("ArgsStep", heap, frames, Replace([Top EXCEPT !.o = n.rest]), EvalC(n.val))

(* an argument collection that puts each new value in front *)
ArgsRetReversed ==
    /\ Returning("args")
    /\ Go("ArgsRet", heap, frames, Replace([Top EXCEPT !.vals = <<ctl.o>> \o Top.vals]),
          StepC)

(* eval_args: the value of the argument is collected *)
ArgsRet ==
    /\ Returning("args")
    /\ Go("ArgsRet", heap, frames, Replace([Top EXCEPT !.vals = Append(Top.vals, ctl.o)]),
          StepC)

(* every argument is evaluated and the callee is a native other than funcall *)
CallSubr ==
    /\ Resuming("args")
    /\ ~IterNext(heap, Top.o).some
    /\ Top.p.t = "subr"
    /\ Top.p.v # sym_FUNCALL
    /\ LET r == call_subr(heap, funcs, Top.p.v, Top.vals)
       IN /\ heap' = r.h
          /\ funcs' = r.f
          /\ ctl' = IF r.ok THEN RetC(r.val) ELSE ErrC(r.err)
    /\ kont' = Pop
    /\ last' = "CallSubr"
    /\ log' = Logged(kont', ctl')
    /\ UNCHANGED <<globals, frames, evals, prog, made, words>>

(* every argument is evaluated and the callee is a compiled function *)
CallLisp ==
    /\ Resuming("args")
    /\ ~IterNext(heap, Top.o).some
    /\ Top.p.t = "lispfn"
    /\ LET r == call_lisp(heap, Top.vals)
       IN Go("CallLisp", r.h, frames, Pop, RetC(r.o))

(* a transform that returns its value as the value of the call *)
MacroRetUnevaluated ==
    /\ Returning("macro")
    /\ ~Top.flag
    /\ Go("MacroRet", heap, frames, Pop, RetC(ctl.o))

(* the transform of the macro has returned the form `value`:                *)
(* self.eval_form(value); the handler keeps the form in p and the length of *)
(* the log in n                                                             *)
MacroRet ==
    /\ Returning("macro")
    /\ ~Top.flag
    /\ Go("MacroRet", heap, frames,
          Replace([Top EXCEPT !.flag = TRUE, !.p = ctl.o, !.n = Len(log)]), EvalC(ctl.o))

(* the value of the form the transform returned is the value of the call *)
MacroValueRet ==
    /\ Returning("macro")
    /\ Top.flag
    /\ Go("MacroValueRet", heap, frames, Pop, RetC(ctl.o))

(* funcall on a closure form: interpreter::call makes an Interpreter with   *)
(* an empty lexical stack, which calls the closure                          *)
Funcall ==
    /\ Resuming("args")
    /\ ~IterNext(heap, Top.o).some
    /\ Top.p = SubrObj(sym_FUNCALL)
    /\ IF Top.vals = <<>>
       THEN Go("Funcall", heap, frames, Pop, ErrC(ArgCount(1, 0)))
       ELSE IF ~IsCons(Top.vals[1])
       THEN Go("Funcall", heap, frames, Pop, ErrC(TypeErr("Type:Func")))
       ELSE Go("Funcall", heap, Append(frames, <<>>),
               Replace([KF("call") EXCEPT !.p = Top.vals[1], !.vals = Tail(Top.vals),
                                          !.saved = CurVars]),
               StepC)

(* a call that runs the body on the caller's own lexical stack *)
CallFrameShared(frs, vs) == Append([frs EXCEPT ![Len(frs)] = vs], vs)

(* the Interpreter that runs the body of a closure: a new one, with the     *)
(* lexical stack vs, on top of the caller's                                 *)
CallFrame(frs, vs) == Append(frs, vs)

(* Interpreter::call_closure, called by eval_call (the callee is an         *)
(* uncompiled closure and every argument is evaluated) or by call           *)
CallClosure ==
    /\ \/ Resuming("args") /\ ~IterNext(heap, Top.o).some /\ IsCons(Top.p)
       \/ Resuming("call") /\ ~Top.flag
    /\ \E r \in {call_closure(heap, Top.p, Top.vals)} :
       LET marker == [KF("call_closure") EXCEPT !.p = Top.p, !.saved = CurVars]
           caller == IF Top.k = "args" THEN Pop ELSE Replace([Top EXCEPT !.flag = TRUE])
       IN IF ~r.ok
          THEN Go("CallClosure", r.h, frames, caller, ErrC(r.err))
          ELSE Go("CallClosure", r.h, CallFrame(frames, r.vs),
                  caller \o <<marker, PrognK(r.body)>>, StepC)

(* the body of the closure has returned: call_frame is dropped *)
ClosureRet ==
    /\ Returning("call_closure")
    /\ Go("ClosureRet", heap, SubSeq(frames, 1, Len(frames) - 1), Pop, RetC(ctl.o))

(* call has returned: its Interpreter is dropped *)
CallRet ==
    /\ Returning("call")
    /\ Go("CallRet", heap, SubSeq(frames, 1, Len(frames) - 1), Pop, RetC(ctl.o))

-----------------------------------------------------------------------------
(* if, and, or, cond, while                                                *)

(* Interpreter::eval_if up to the evaluation of the condition *)
EvalIf ==
    /\ AtForm(sym_IF)
    /\ LET obj == Cdr(heap, ctl.o)
           condition == IterNext(heap, obj)
           true_branch == IterNext(heap, condition.rest)
       IN IF ~IsList(obj)
          THEN Go("EvalIf", heap, frames, kont, ErrC(TypeErr("Type:List")))
          ELSE IF ~condition.some
          THEN Go("EvalIf", heap, frames, kont, ErrC(ArgCount(2, 0)))
          ELSE IF ~condition.ok
          THEN Go("EvalIf", heap, frames, kont, ErrC(Err("ImproperList", 0, 0)))
          ELSE IF ~true_branch.some
          THEN Go("EvalIf", heap, frames, kont, ErrC(ArgCount(2, 1)))
          ELSE IF ~true_branch.ok
          THEN Go("EvalIf", heap, frames, kont, ErrC(Err("ImproperList", 0, 0)))
          ELSE Go("EvalIf", heap, frames,
                  Push([KF("if") EXCEPT !.o = true_branch.val, !.o2 = true_branch.rest,
                                        !.src = obj]),
                  EvalC(condition.val))

(* a branch taken the wrong way round *)
IfRetInverted ==
    /\ Returning("if")
    /\ ~Top.flag
    /\ LET branch == [Top EXCEPT !.flag = TRUE, !.p = ctl.o, !.n = Len(log)]
       IN IF ctl.o = NIL
          THEN Go("IfRet", heap, frames, Replace(branch), EvalC(Top.o))
          ELSE Go("IfRet", heap, frames, Append(Replace(branch), PrognK(Top.o2)), StepC)

(* the branch: the then form, or the remaining forms as an implicit progn;  *)
(* the handler keeps the value of the condition in p and the length of the  *)
(* log in n                                                                 *)
IfRet ==
    /\ Returning("if")
    /\ ~Top.flag
    /\ LET branch == [Top EXCEPT !.flag = TRUE, !.p = ctl.o, !.n = Len(log)]
       IN IF ctl.o # NIL
          THEN Go("IfRet", heap, frames, Replace(branch), EvalC(Top.o))
          ELSE Go("IfRet", heap, frames, Append(Replace(branch), PrognK(Top.o2)), StepC)

(* the value of the branch is the value of eval_if *)
IfBranchRet ==
    /\ Returning("if")
    /\ Top.flag
    /\ Go("IfBranchRet", heap, frames, Pop, RetC(ctl.o))

(* Interpreter::eval_and *)
EvalAnd ==
    /\ AtForm(sym_AND)
    /\ LET obj == Cdr(heap, ctl.o)
       IN IF ~IsList(obj)
          THEN Go("EvalAnd", heap, frames, kont, ErrC(TypeErr("Type:List")))
          ELSE Go("EvalAnd", heap, frames,
                  Push([KF("and") EXCEPT !.o = obj, !.p = TRUE_, !.src = obj]), StepC)

AndStep ==
    /\ Resuming("and")
    /\ LET n == IterNext(heap, Top.o)
       IN IF ~n.some THEN Go("AndStep", heap, frames, Pop, RetC(Top.p))
          ELSE IF ~n.ok
          THEN Go("AndStep", heap, frames, kont, ErrC(Err("ImproperList", 0, 0)))
          ELSE Go("AndStep", heap, frames, Replace([Top EXCEPT !.o = n.rest]), EvalC(n.val))

(* an `and` that goes on after a nil value *)
AndRetNoStop ==
    /\ Returning("and")
    /\ Go("AndRet", heap, frames, Replace([Top EXCEPT !.p = ctl.o]), StepC)

(* the value of a form of `and`: nil ends the loop *)
AndRet ==
    /\ Returning("and")
    /\ IF ctl.o = NIL
       THEN Go("AndRet", heap, frames, Pop, RetC(ctl.o))
       ELSE Go("AndRet", heap, frames, Replace([Top EXCEPT !.p = ctl.o]), StepC)

(* Interpreter::eval_or *)
EvalOr ==
    /\ AtForm(sym_OR)
    /\ LET obj == Cdr(heap, ctl.o)
       IN IF ~IsList(obj)
          THEN Go("EvalOr", heap, frames, kont, ErrC(TypeErr("Type:List")))
          ELSE Go("EvalOr", heap, frames, Push([KF("or") EXCEPT !.o = obj, !.src = obj]), StepC)

OrStep ==
    /\ Resuming("or")
    /\ LET n == IterNext(heap, Top.o)
       IN IF ~n.some THEN Go("OrStep", heap, frames, Pop, RetC(Top.p))
          ELSE IF ~n.ok
          THEN Go("OrStep", heap, frames, kont, ErrC(Err("ImproperList", 0, 0)))
          ELSE Go("OrStep", heap, frames, Replace([Top EXCEPT !.o = n.rest]), EvalC(n.val))

OrRet ==
    /\ Returning("or")
    /\ IF ctl.o # NIL
       THEN Go("OrRet", heap, frames, Pop, RetC(ctl.o))
       ELSE Go("OrRet", heap, frames, Replace([Top EXCEPT !.p = ctl.o]), StepC)

(* Interpreter::eval_cond *)
EvalCond ==
    /\ AtForm(sym_COND)
    /\ LET obj == Cdr(heap, ctl.o)
       IN IF ~IsList(obj)
          THEN Go("EvalCond", heap, frames, kont, ErrC(TypeErr("Type:List")))
          ELSE Go("EvalCond", heap, frames, Push([KF("cond") EXCEPT !.o = obj, !.src = obj]), StepC)

(* the test of the next clause *)
CondStep ==
    /\ Resuming("cond")
    /\ LET n == IterNext(heap, Top.o)
           first == IterNext(heap, n.val)
       IN IF ~n.some THEN Go("CondStep", heap, frames, Pop, RetC(Top.p))
          ELSE IF ~n.ok
          THEN Go("CondStep", heap, frames, kont, ErrC(Err("ImproperList", 0, 0)))
          ELSE IF ~IsList(n.val)
          THEN Go("CondStep", heap, frames, kont, ErrC(TypeErr("Type:List")))
          ELSE IF first.some /\ ~first.ok
          THEN Go("CondStep", heap, frames, kont, ErrC(Err("ImproperList", 0, 0)))
          ELSE Go("CondStep", heap, frames,
                  Replace([Top EXCEPT !.o = n.rest, !.o2 = first.rest]),
                  EvalC(first.val))

(* a `cond` whose value is always the value of the test *)
CondRetTestValue ==
    /\ Returning("cond")
    /\ ~Top.flag
    /\ IF ctl.o # NIL
       THEN Go("CondRet", heap, frames, Pop, RetC(ctl.o))
       ELSE Go("CondRet", heap, frames, Replace([Top EXCEPT !.p = ctl.o]), StepC)

(* the test has a value: the rest of the clause as an implicit progn, the   *)
(* value itself, or the next clause; the handler keeps the length of the    *)
(* log in n when it enters the clause                                       *)
CondRet ==
    /\ Returning("cond")
    /\ ~Top.flag
    /\ IF ctl.o # NIL
       THEN IF IsCons(Top.o2)
            THEN Go("CondRet", heap, frames,
                    Append(Replace([Top EXCEPT !.flag = TRUE, !.p = ctl.o, !.n = Len(log)]),
                           PrognK(Top.o2)),
                    StepC)
            ELSE Go("CondRet", heap, frames, Pop, RetC(ctl.o))
       ELSE Go("CondRet", heap, frames, Replace([Top EXCEPT !.p = ctl.o]), StepC)

(* the value of the clause's forms is the value of eval_cond *)
CondBodyRet ==
    /\ Returning("cond")
    /\ Top.flag
    /\ Go("CondBodyRet", heap, frames, Pop, RetC(ctl.o))

(* Interpreter::eval_while up to the first evaluation of the condition *)
EvalWhile ==
    /\ AtForm(sym_WHILE)
    /\ LET obj == Cdr(heap, ctl.o)
           condition == IterNext(heap, obj)
       IN IF ~IsList(obj)
          THEN Go("EvalWhile", heap, frames, kont, ErrC(TypeErr("Type:List")))
          ELSE IF ~condition.some
          THEN Go("EvalWhile", heap, frames, kont, ErrC(ArgCount(1, 0)))
          ELSE IF ~condition.ok
          THEN Go("EvalWhile", heap, frames, kont, ErrC(Err("ImproperList", 0, 0)))
          ELSE Go("EvalWhile", heap, frames,
                  Push([KF("while") EXCEPT !.o = condition.val, !.o2 = condition.rest,
                                           !.src = obj]),
                  EvalC(condition.val))

(* a loop that ends after its first iteration *)
WhileRetOnce ==
    /\ Returning("while")
    /\ IF Top.flag \/ ctl.o = NIL
       THEN Go("WhileRet", heap, frames, Pop, RetC(NIL))
       ELSE Go("WhileRet", heap, frames,
               Append(Replace([Top EXCEPT !.flag = TRUE, !.n = Len(log)]), PrognK(Top.o2)),
               StepC)

(* the condition has a value: the body, or the end of the loop; the body    *)
(* has a value: the condition again.  The handler keeps the length of the   *)
(* log in n when it enters the body.                                        *)
WhileRet ==
    /\ Returning("while")
    /\ IF Top.flag
       THEN Go("WhileRet", heap, frames, Replace([Top EXCEPT !.flag = FALSE]), EvalC(Top.o))
       ELSE IF ctl.o # NIL
       THEN Go("WhileRet", heap, frames,
               Append(Replace([Top EXCEPT !.flag = TRUE, !.n = Len(log)]), PrognK(Top.o2)),
               StepC)
       ELSE Go("WhileRet", heap, frames, Pop, RetC(NIL))

-----------------------------------------------------------------------------
(* A handler that takes an error for the value nil *)
(* A let or let* that pops its bindings when it returns an error *)
UnwindRollsBack ==
    /\ ctl.m = "err"
    /\ kont # <<>>
    /\ Go("Unwind", heap,
          IF Top.k \in {"call_closure", "call"}
          THEN SubSeq(frames, 1, Len(frames) - 1)
          ELSE IF Top.k \in {"let_bind", "let_body"}
          THEN SetVars(Truncate(CurVars, Top.n))
          ELSE frames,
          Pop, ctl)

UnwindSwallows ==
    /\ ctl.m = "err"
    /\ kont # <<>>
    /\ Go("Unwind", heap,
          IF Top.k \in {"call_closure", "call"}
          THEN SubSeq(frames, 1, Len(frames) - 1) ELSE frames,
          Pop, RetC(NIL))

(* An error returned by a sub-evaluation is returned by the handler that    *)
(* asked for it (the `?` operator); an Interpreter made for a call is       *)
(* dropped with its handler.                                                *)
Unwind ==
    /\ ctl.m = "err"
    /\ kont # <<>>
    /\ Go("Unwind", heap,
          IF Top.k \in {"call_closure", "call"}
          THEN SubSeq(frames, 1, Len(frames) - 1) ELSE frames,
          Pop, ctl)

Next ==
    \/ \E p \in DOMAIN Programs, lexical \in Lexicals : Eval(p, lexical)
    \/ EvalReturn
    \/ EvalSelf
    \/ EvalSymbol
    \/ EvalSexpInvalid
    \/ Quote
    \/ EvalProgn
    \/ PrognStep
    \/ PrognRet
    \/ EvalProgx
    \/ ProgxStep
    \/ ProgxRet
    \/ EvalLet
    \/ LetBindStep
    \/ LetBindRet
    \/ LetBodyRet
    \/ EvalSetq
    \/ SetqStep
    \/ SetqRet
    \/ EvalDefvar
    \/ DefvarRet
    \/ EvalFunction
    \/ EvalCall
    \/ ArgsStep
    \/ ArgsRet
    \/ CallSubr
    \/ CallLisp
    \/ MacroRet
    \/ MacroValueRet
    \/ Funcall
    \/ CallClosure
    \/ ClosureRet
    \/ CallRet
    \/ EvalIf
    \/ IfRet
    \/ IfBranchRet
    \/ EvalAnd
    \/ AndStep
    \/ AndRet
    \/ EvalOr
    \/ OrStep
    \/ OrRet
    \/ EvalCond
    \/ CondStep
    \/ CondRet
    \/ CondBodyRet
    \/ EvalWhile
    \/ WhileRet
    \/ Unwind

Spec == Init /\ [][Next]_vars

-----------------------------------------------------------------------------
(* The value-word layer on its own: one word is built from a reference or   *)
(* an integer, and a word for a reference is marked read-only, with no      *)
(* evaluation running.                                                      *)

NoEval == UNCHANGED <<heap, globals, funcs, frames, kont, ctl, evals, prog, made, log>>

FromRef(rf) ==
    /\ word.how = "unused"
    /\ word' = [how |-> "from_ref", given |-> rf, data |-> from_ref(rf), bits |-> I64(0)]
    /\ last' = "from_ref"
    /\ UNCHANGED obarray
    /\ NoEval

FromMutRef(rf) ==
    /\ word.how = "unused"
    /\ word' = [how |-> "from_mut_ref", given |-> rf, data |-> from_mut_ref(rf), bits |-> I64(0)]
    /\ last' = "from_mut_ref"
    /\ UNCHANGED obarray
    /\ NoEval

(* make_read_only that clears the word *)
MakeReadOnlyCleared ==
    /\ word.how \in {"from_ref", "from_mut_ref"}
    /\ word' = [word EXCEPT !.data = make_read_only(UNUSED)]
    /\ last' = "make_read_only"
    /\ UNCHANGED obarray
    /\ NoEval

MakeReadOnly ==
    /\ word.how \in {"from_ref", "from_mut_ref"}
    /\ word' = [word EXCEPT !.data = make_read_only(word.data)]
    /\ last' = "make_read_only"
    /\ UNCHANGED obarray
    /\ NoEval

FromInt(x) ==
    /\ word.how = "unused"
    /\ word' = [how |-> "from_int", given |-> x, data |-> from_int(x), bits |-> I64(0)]
    /\ last' = "from_int"
    /\ UNCHANGED obarray
    /\ NoEval

(* an integer made into an Object: InnerObject::from_tag_bits(x, Tag::Int) *)
IntoObj(x) ==
    /\ word.how = "unused"
    /\ from_tag_bits(x, Tag.Int).ok
    /\ word' = [how |-> "into_obj", given |-> x, data |-> UNUSED,
                bits |-> from_tag_bits(x, Tag.Int).bits]
    /\ last' = "into_obj"
    /\ UNCHANGED obarray
    /\ NoEval

NextData ==
    \/ \E rf \in Pointers : FromRef(rf)
    \/ \E rf \in Pointers : FromMutRef(rf)
    \/ MakeReadOnly
    \/ \E x \in Ints : FromInt(x)
    \/ \E x \in Ints : IntoObj(x)

SpecData == Init /\ [][NextData]_vars

-----------------------------------------------------------------------------
(* Argument binding on its own: bind_args is applied to a parameter list    *)
(* and a vector of arguments, on an empty lexical stack.                    *)

ParamAlphabet == {S(sym_X), S(sym_Y), S(sym_AND_OPTIONAL), S(sym_AND_REST), N(1)}

ParamLists == {L(e) : e \in UNION {[1..k -> ParamAlphabet] : k \in 0..MaxParams}}

ArgVectors == {<<>>, <<Int_(5)>>, <<Int_(5), Int_(7)>>, <<Int_(5), Int_(7), Int_(11)>>}

(* the parameter list is in the arena and is the object at hand; one        *)
(* Interpreter with an empty lexical stack is to bind it                    *)
InitArgs ==
    /\ \E a \in ParamLists :
          /\ heap = Read(<<>>, a).h
          /\ ctl = Ctl("idle", Read(<<>>, a).o, NoErr)
    /\ globals = [s \in SymIds |-> Unbound]
    /\ funcs = [s \in SymIds |-> Unbound]
    /\ frames = << <<>> >>
    /\ kont = <<>>
    /\ evals = 0
    /\ prog = 0
    /\ last = "Init"
    /\ made = <<>>
    /\ log = <<>>
    /\ word = [how |-> "unused", given |-> I64(0), data |-> UNUSED, bits |-> I64(0)]
    /\ obarray = [names |-> <<>>, calls |-> <<>>]

(* self.bind_args(arg_list, args, &mut vars) *)
BindArgs(args) ==
    /\ ctl.m = "idle"
    /\ \E r \in {bind_args(heap, ctl.o, args, <<>>)} :
          /\ heap' = r.h
          /\ frames' = IF r.ok THEN <<r.vs>> ELSE frames
          /\ ctl' = IF r.ok THEN RetC(ctl.o) ELSE ErrC(r.err)
    /\ last' = "bind_args"
    /\ UNCHANGED <<globals, funcs, kont, evals, prog, made, log, words>>

NextArgs == \E args \in ArgVectors : BindArgs(args)

SpecArgs == InitArgs /\ [][NextArgs]_vars

-----------------------------------------------------------------------------
(* The intern table on its own: names are interned in any order.            *)

Intern(name) ==
    /\ Len(obarray.calls) < MaxInterns
    /\ LET r == symbol_intern(obarray.names, name)
       IN obarray' = [names |-> r.names,
                      calls |-> Append(obarray.calls, [name |-> name, sym |-> r.sym])]
    /\ last' = "intern"
    /\ UNCHANGED word
    /\ NoEval

NextIntern == \E name \in Names : Intern(name)

SpecIntern == Init /\ [][NextIntern]_vars

-----------------------------------------------------------------------------
(* Properties.                                                              *)

(* the evaluation in progress, or the last one made, is of the program t *)
Running(t) == prog \in DOMAIN Programs /\ Programs[prog] = t

(* the evaluation of the program t has returned a value *)
Done(t) == Running(t) /\ ctl.m = "done"

(* the program t has been evaluated to its end, a value or an error *)
Ended(t) == Running(t) /\ last = "EvalReturn"

(* o is a closure object whose ENV list is well formed *)
IsClosure(h, o) ==
    /\ IsCons(o)
    /\ Car(h, o) = SymObj(sym_CLOSURE)
    /\ IsCons(Cdr(h, o))
    /\ parse_closure_env(h, Car(h, Cdr(h, o))).ok

(* the binding cells of the closure's ENV list *)
ClosureEnv(h, o) == parse_closure_env(h, Car(h, Cdr(h, o))).env

RECURSIVE EnvCells(_, _)
(* the leading conses of a list, as cell addresses: an ENV list up to its `t` *)
EnvCells(h, o) ==
    IF IsCons(o) /\ IsCons(Car(h, o))
    THEN <<Car(h, o).v>> \o EnvCells(h, Cdr(h, o))
    ELSE <<>>

RECURSIVE CellsOf(_, _)
(* every cell reachable from the object o *)
CellsOf(h, o) ==
    IF IsCons(o) THEN {o.v} \cup CellsOf(h, Car(h, o)) \cup CellsOf(h, Cdr(h, o)) ELSE {}

(* the positions of the stack vs that bind the symbol object sym *)
Bound(h, vs, sym) == {i \in DOMAIN vs : h[vs[i]].car = sym}

(* the closure whose body the current frame is running, if any *)
CalledClosure ==
    LET ms == {k \in DOMAIN kont : kont[k].k = "call_closure"}
    IN IF ms = {} THEN NIL ELSE kont[CHOOSE k \in ms : \A j \in ms : j <= k].p

(* C1: closures capture lexical bindings by reference.  The ENV of every    *)
(* closure made by `function` is the sequence of binding cells of the       *)
(* scope it was made in (the cells themselves); when the body of one        *)
(* closure assigns a captured variable with setq, a read of that variable   *)
(* through the ENV of any other closure made in the same scope gives the    *)
(* new value, also after the `let` has returned; so the two closures of     *)
(* TestSharedClosures, one setting x to 5 and the other adding 4, give 9.   *)
C1_ClosuresShareBindingCells ==
    [][/\ \A i \in DOMAIN made' : ClosureEnv(heap', made'[i].clo) = made'[i].scope
       /\ last' = "SetqRet" =>
             \A i, j \in DOMAIN made :
                LET k == Bound(heap, CurVars, Top.o2)
                IN (/\ CalledClosure = made[i].clo
                    /\ made[j].scope = made[i].scope
                    /\ k # {}
                    /\ \A n \in k : n <= Len(made[i].scope))
                   => var_ref(heap', globals', ClosureEnv(heap', made[j].clo), Top.o2.v)
                        = [ok |-> TRUE, val |-> ctl.o, err |-> NoErr]
       /\ Done(TestSharedClosures)' => ctl'.o = Int_(9)]_vars

(* the shared-closures program has returned 9: two closures of one scope    *)
(* exist and the cell of x they share holds the 5 one of them assigned      *)
C1_Witness ==
    /\ Done(TestSharedClosures)
    /\ ctl.o = Int_(9)
    /\ \E i, j \in DOMAIN made :
          /\ i # j
          /\ made[i].scope = made[j].scope
          /\ made[i].scope # <<>>
          /\ ClosureEnv(heap, made[i].clo) = ClosureEnv(heap, made[j].clo)
          /\ heap[made[i].scope[1]] = Cell(SymObj(sym_X), Int_(5))

(* C2: a global function definition captures its lexical bindings by value. *)
(* The object defalias installs in a function cell is made of new cells     *)
(* only: it shares no cell with the scope it was defined in nor with any    *)
(* other closure; the x the global function of TestNoCapture sees stays 3   *)
(* while another closure of the same scope sets x to 4, and (f 5) gives 8.  *)
C2_GlobalFunctionCapturesByValue ==
    [][/\ \A s \in SymIds :
             funcs'[s] # funcs[s] => \A c \in CellsOf(heap', funcs'[s]) : c > Len(heap)
       /\ (Running(TestNoCapture)' /\ IsClosure(heap', funcs'[sym_F])
             /\ ClosureEnv(heap', funcs'[sym_F]) # <<>>)
          => var_ref(heap', globals', ClosureEnv(heap', funcs'[sym_F]), sym_X).val = Int_(3)
       /\ Done(TestNoCapture)' => ctl'.o = Int_(8)]_vars

(* the no-capture program has returned 8: the scope's own cell of x holds   *)
(* the 4 the other closure assigned, the global function's copy holds 3     *)
C2_Witness ==
    /\ Done(TestNoCapture)
    /\ ctl.o = Int_(8)
    /\ IsClosure(heap, funcs[sym_F])
    /\ \E c \in DOMAIN heap :
          /\ ClosureEnv(heap, funcs[sym_F]) = <<c>>
          /\ heap[c] = Cell(SymObj(sym_X), Int_(3))
    /\ \E i \in DOMAIN made :
          /\ Len(made[i].scope) = 1
          /\ heap[made[i].scope[1]] = Cell(SymObj(sym_X), Int_(4))

(* C3: evaluating a non-keyword symbol gives the value of the most recently *)
(* pushed lexical binding of that symbol; without a lexical binding, the    *)
(* symbol's global binding; with neither, a void-variable error.            *)
C3_VariableResolutionOrder ==
    [][/\ (last' = "EvalSymbol" /\ ~IsKeyword(ctl.o.v)) =>
             LET b == Bound(heap, CurVars, ctl.o)
             IN /\ b # {} =>
                     \E i \in b : /\ \A j \in b : j <= i
                                  /\ ctl' = RetC(heap[CurVars[i]].cdr)
                /\ (b = {} /\ globals[ctl.o.v] # Unbound) => ctl' = RetC(globals[ctl.o.v])
                /\ (b = {} /\ globals[ctl.o.v] = Unbound)
                   => ctl' = ErrC(Err("VoidVariable", ctl.o.v, 0))
       /\ Done(TestShadow)' => ctl'.o = Int_(3)]_vars

(* x is read under two lexical bindings of x and the inner one, 3, is given *)
C3_Witness ==
    /\ Running(TestShadow)
    /\ last = "EvalSymbol"
    /\ Len(CurVars) = 2
    /\ heap[CurVars[1]] = Cell(SymObj(sym_X), Int_(1))
    /\ heap[CurVars[2]] = Cell(SymObj(sym_X), Int_(3))
    /\ ctl = RetC(Int_(3))

(* C4: binding visibility in let and let*.  When an initializer of `let` is *)
(* about to be evaluated the lexical stack is as it was before the form,    *)
(* and the bindings made so far wait in let_bindings; they are all pushed,  *)
(* in order, when the body starts.  When an initializer of `let*` is about  *)
(* to be evaluated the stack is the one before the form followed by the     *)
(* bindings of the earlier initializers.  (let* ((x 1) (y x)) y) gives 1;   *)
(* (let ((x 1) (y x)) y) reads the global x, or fails when there is none.   *)
C4_LetBindingVisibility ==
    /\ (ctl.m = "eval" /\ kont # <<>> /\ Top.k = "let_bind") =>
          IF Top.flag
          THEN CurVars = Top.saved /\ Top.cells = Top.vals
          ELSE CurVars = Top.saved \o Top.vals
    /\ (last = "LetBindStep" /\ ctl.m = "step" /\ Top.k = "progn") =>
          /\ kont[Len(kont) - 1].k = "let_body"
          /\ CurVars = kont[Len(kont) - 1].saved \o kont[Len(kont) - 1].vals
    /\ Done(TestLetStar) => ctl.o = Int_(1)
    /\ Ended(TestLetParallel) =>
          IF globals[sym_X] = Unbound
          THEN ctl = Ctl("failed", NIL, Err("VoidVariable", sym_X, 0))
          ELSE ctl = Ctl("done", globals[sym_X], NoErr)

(* inside a let* that bound x and then y to x, the second initializer of a  *)
(* let is about to be evaluated: the let's own x is not on the stack        *)
C4_Witness ==
    /\ Running(TestLetBoth)
    /\ ctl = EvalC(SymObj(sym_X))
    /\ Top.k = "let_bind"
    /\ Top.flag
    /\ Len(Top.vals) = 1
    /\ heap[Top.vals[1]] = Cell(SymObj(sym_X), Int_(2))
    /\ Len(CurVars) = 2
    /\ heap[CurVars[1]] = Cell(SymObj(sym_X), Int_(1))
    /\ heap[CurVars[2]] = Cell(SymObj(sym_Y), Int_(1))

(* C5: a let or let* form pops exactly the bindings it pushed.  When the    *)
(* form returns a value, the lexical stack of the evaluating frame is the   *)
(* sequence of cells it was before the form, and no other frame changed;    *)
(* an evaluation that returns a value leaves its stack empty, as it began.  *)
C5_LetIsStackNeutral ==
    [][/\ last' = "LetBodyRet" =>
             /\ ctl'.m = "ret"
             /\ frames' = [frames EXCEPT ![Len(frames)] = Top.saved]
       /\ (last' = "EvalReturn" /\ ctl'.m = "done") => frames = << <<>> >>]_vars

(* an inner let that pushed a binding has returned its value and the        *)
(* stack is back to the one binding of the enclosing let                    *)
C5_Witness ==
    /\ Running(TestShadow)
    /\ last = "LetBodyRet"
    /\ ctl = RetC(Int_(3))
    /\ Len(CurVars) = 1
    /\ heap[CurVars[1]] = Cell(SymObj(sym_X), Int_(1))
    /\ Top.k = "progn"

RECURSIVE ParamNames(_, _)
(* the symbols of a parameter list that name parameters, in order *)
ParamNames(h, o) ==
    IF ~IsCons(o) THEN <<>>
    ELSE IF Car(h, o) \in {SymObj(sym_AND_OPTIONAL), SymObj(sym_AND_REST)}
    THEN ParamNames(h, Cdr(h, o))
    ELSE <<Car(h, o)>> \o ParamNames(h, Cdr(h, o))

(* C6: setq selects its target by scope.  With a lexical binding of the     *)
(* symbol, the assignment changes the cdr of the most recently pushed       *)
(* binding cell of that symbol and nothing else: every other cell, the      *)
(* global store and the stack stay as they were.  Without one, it changes   *)
(* the symbol's entry of the global store and nothing else.  The value      *)
(* assigned is kept as last_value, and the form returns the last_value of   *)
(* its last assignment: (setq x 1 y 2) gives 2.                             *)
C6_SetqTargetByScope ==
    [][/\ last' = "SetqRet" =>
             LET b == Bound(heap, CurVars, Top.o2)
             IN /\ frames' = frames
                /\ kont'[Len(kont')].p = ctl.o
                /\ b # {} =>
                     \E i \in b :
                        /\ \A j \in b : j <= i
                        /\ heap' = [heap EXCEPT ![CurVars[i]].cdr = ctl.o]
                        /\ globals' = globals
                /\ b = {} =>
                     /\ heap' = heap
                     /\ globals' = [globals EXCEPT ![Top.o2.v] = ctl.o]
       /\ (last' = "SetqStep" /\ ctl'.m = "ret") =>
             /\ last = "SetqRet"
             /\ ctl'.o = Top.p
       /\ Done(TestSetqPairs)' =>
             /\ ctl'.o = Int_(2)
             /\ globals'[sym_X] = Int_(1)
             /\ globals'[sym_Y] = Int_(2)
       /\ Done(TestSetqInner)' => ctl'.o = Int_(1)]_vars

(* under two lexical bindings of x, setq has given the inner one 3; the     *)
(* outer one is still 1 and x has no global binding                         *)
C6_Witness ==
    /\ Running(TestSetqInner)
    /\ last = "SetqRet"
    /\ Len(CurVars) = 2
    /\ heap[CurVars[1]] = Cell(SymObj(sym_X), Int_(1))
    /\ heap[CurVars[2]] = Cell(SymObj(sym_X), Int_(3))
    /\ globals[sym_X] = Unbound

C8_DefvarBindsGlobally ==
    [][/\ last' = "DefvarRet" =>
             /\ ctl' = RetC(ctl.o)
             /\ globals'[Top.o2.v] = ctl.o
       /\ (last' = "EvalDefvar" /\ ctl'.m = "ret") =>
             /\ ctl'.o = NIL
             /\ globals'[Car(heap, Cdr(heap, ctl.o)).v] = NIL
       /\ (last' = "EvalDefvar" /\ Cdr(heap, ctl.o) = NIL) => ctl' = ErrC(ArgCount(1, 0))]_vars

(* (let ((x 1)) (defvar x 5)) has returned 5 and x has no global binding *)
C8_Witness ==
    /\ Done(TestDefvarInLet)
    /\ ctl.o = Int_(5)
    /\ globals[sym_X] = Unbound

(* C9: the body of a closure is evaluated in a new frame whose lexical      *)
(* stack is the binding cells of the closure's ENV list, in list order up   *)
(* to the `t`, followed by one new cell per parameter, in order.  Nothing   *)
(* else is on it: the bindings of the caller are not visible unless they    *)
(* are in ENV.  A parameter shadows a captured variable of the same name.   *)
C9_ClosureFrameIsEnvThenParams ==
    [][/\ (last' = "CallClosure" /\ ctl'.m = "step") =>
             LET forms == Cdr(heap, Top.p)
                 env == EnvCells(heap, Car(heap, forms))
                 params == ParamNames(heap, Car(heap, Cdr(heap, forms)))
                 vs == frames'[Len(frames')]
             IN /\ Len(frames') = Len(frames) + 1
                /\ Len(vs) = Len(env) + Len(params)
                /\ SubSeq(vs, 1, Len(env)) = env
                /\ \A i \in DOMAIN params :
                      /\ vs[Len(env) + i] > Len(heap)
                      /\ heap'[vs[Len(env) + i]].car = params[i]
                      /\ (\A j \in DOMAIN params : j > i => params[j] # params[i])
                         => var_ref(heap', globals', vs, params[i].v).val
                              = heap'[vs[Len(env) + i]].cdr
       /\ Done(TestParamShadows)' => ctl'.o = Int_(5)
       /\ Ended(TestLexicalScope)' =>
             IF globals'[sym_X] = Unbound
             THEN ctl' = Ctl("failed", NIL, Err("VoidVariable", sym_X, 0))
             ELSE ctl' = Ctl("done", globals'[sym_X], NoErr)]_vars

(* a closure that captured x = 1 and takes a parameter x is called with 5:  *)
(* its frame holds the captured cell, then the parameter's                  *)
C9_Witness ==
    /\ Running(TestParamShadows)
    /\ last = "CallClosure"
    /\ ctl.m = "step"
    /\ Len(frames) = 3
    /\ Len(CurVars) = 2
    /\ heap[CurVars[1]] = Cell(SymObj(sym_X), Int_(1))
    /\ heap[CurVars[2]] = Cell(SymObj(sym_X), Int_(5))
    /\ CurVars[1] \in {frames[1][i] : i \in DOMAIN frames[1]}

(* C10: calling a closure never changes the caller's lexical stack.  When   *)
(* call_closure returns, with a value or with an error, the frame of the    *)
(* body is gone and every other frame, the caller's included, holds the     *)
(* cells it held at the call, in the same order; a call that fails while    *)
(* binding its arguments leaves every frame as it was.  The same holds of   *)
(* the Interpreter that `call` makes.                                       *)
C10_CallLeavesCallerStack ==
    [][/\ (last' = "ClosureRet" \/ (last' = "Unwind" /\ Top.k = "call_closure")) =>
             /\ frames' = SubSeq(frames, 1, Len(frames) - 1)
             /\ frames'[Len(frames')] = Top.saved
             /\ ctl'.m = ctl.m
       /\ (last' = "CallClosure" /\ ctl'.m = "err") => frames' = frames
       /\ (last' = "CallClosure" /\ ctl'.m = "step") =>
             SubSeq(frames', 1, Len(frames)) = frames
       /\ (last' = "CallRet" \/ (last' = "Unwind" /\ Top.k = "call")) =>
             /\ frames' = SubSeq(frames, 1, Len(frames) - 1)
             /\ frames'[Len(frames')] = Top.saved]_vars

(* the body of a closure called under a binding of y has failed inside a    *)
(* let of its own: back in the caller, the stack is the one cell of y       *)
C10_Witness ==
    /\ Running(TestErrorInClosure)
    /\ last = "Unwind"
    /\ ctl = ErrC(Err("VoidVariable", sym_UNDEF, 0))
    /\ Len(frames) = 1
    /\ Len(CurVars) = 1
    /\ heap[CurVars[1]] = Cell(SymObj(sym_Y), Int_(1))
    /\ Top.k = "let_body"

(* the parameter list of the closure object o *)
ClosureArgList(h, o) == Car(h, Cdr(h, Cdr(h, o)))

(* o is a closure object with a well formed ENV and a parameter list that   *)
(* parse_arg_list accepts                                                   *)
WellFormedClosure(h, o) ==
    /\ IsClosure(h, o)
    /\ IsCons(Cdr(h, Cdr(h, o)))
    /\ parse_arg_list(h, ClosureArgList(h, o)).ok

(* C11: argument binding fails with ArgCount exactly when the arguments are *)
(* too few or too many.  For a closure whose ENV and parameter list are     *)
(* well formed, call_closure fails exactly when fewer actual arguments than *)
(* required parameters are given (ArgCount(required, actual)) or, without a *)
(* &rest parameter, more than required plus optional ones                   *)
(* (ArgCount(required + optional, actual)); the failure comes before any    *)
(* body form is evaluated: no call frame is made and nothing is evaluated   *)
(* in the failing step.  In every other case the binding succeeds and the   *)
(* body is about to run in a new frame.                                     *)
C11_ArgCountExactlyWhenTooFewOrTooMany ==
    [][(last' = "CallClosure" /\ WellFormedClosure(heap, Top.p)) =>
          \A p \in {parse_arg_list(heap, ClosureArgList(heap, Top.p))} :
             LET actual == Len(Top.vals)
                 few == actual < Len(p.required)
                 many == p.rest = Unbound /\ actual > Len(p.required) + Len(p.optional)
             IN /\ (few \/ many) <=> ctl'.m = "err"
                /\ few => ctl'.e = ArgCount(Len(p.required), actual)
                /\ (~few /\ many) =>
                      ctl'.e = ArgCount(Len(p.required) + Len(p.optional), actual)
                /\ ctl'.m = "err" =>
                      /\ frames' = frames
                      /\ \A k \in DOMAIN kont' : kont'[k] \in {kont[j] : j \in DOMAIN kont}
                                                 \/ kont'[k] = [Top EXCEPT !.flag = TRUE]
                      /\ globals' = globals
                /\ ~(few \/ many) =>
                      /\ ctl' = StepC
                      /\ Len(frames') = Len(frames) + 1
                      /\ kont'[Len(kont')] =
                            PrognK(Cdr(heap, Cdr(heap, Cdr(heap, Top.p))))]_vars

(* both failures happen: a one-parameter closure is called with two         *)
(* arguments, and its body, which would set g, has not run when eval        *)
(* returns the error                                                        *)
C11_Witness ==
    /\ Ended(TestTooManyArgs)
    /\ ctl = Ctl("failed", NIL, ArgCount(1, 2))
    /\ globals[sym_G] = Unbound

(* C12: what a successful binding binds.  The call frame of a closure      *)
(* with a well formed ENV and parameter list holds, after the ENV cells,    *)
(* one new cell per required and optional parameter, in order: the i-th is  *)
(* named after the i-th parameter and holds the i-th actual argument, or    *)
(* nil when there is no i-th argument; after them, when there is a &rest    *)
(* parameter, one cell named after it that holds a proper list of exactly   *)
(* the remaining arguments in order (nil when none remain).  So the closure *)
(* of the module's test, (lambda (x &optional y &rest z) (cons x (cons y    *)
(* z))), gives (5 7 11) on 5 7 11 and (5 nil) on 5.                         *)
C12_ParametersBoundInOrder ==
    [][/\ (last' = "CallClosure" /\ ctl'.m = "step" /\ WellFormedClosure(heap, Top.p)) =>
             \A p \in {parse_arg_list(heap, ClosureArgList(heap, Top.p))} :
                LET vs == frames'[Len(frames')]
                    base == Len(ClosureEnv(heap, Top.p))
                    names == p.required \o p.optional
                    np == Len(names)
                IN /\ Len(vs) = base + np + (IF p.rest = Unbound THEN 0 ELSE 1)
                   /\ \A i \in 1..np :
                         /\ vs[base + i] \notin DOMAIN heap
                         /\ heap'[vs[base + i]] =
                               Cell(SymObj(names[i]),
                                    IF i <= Len(Top.vals) THEN Top.vals[i] ELSE NIL)
                   /\ p.rest # Unbound =>
                         /\ heap'[vs[base + np + 1]].car = p.rest
                         /\ Proper(heap', heap'[vs[base + np + 1]].cdr)
                         /\ ListElems(heap', heap'[vs[base + np + 1]].cdr)
                               = Drop(Top.vals, np)
       /\ Done(TestRestArgs)' => ListElems(heap', ctl'.o) = <<Int_(5), Int_(7), Int_(11)>>
       /\ Done(TestRestEmpty)' => ListElems(heap', ctl'.o) = <<Int_(5), NIL>>
       /\ Done(TestOptionalMissing)' => ctl'.o = NIL]_vars

(* the closure (lambda (x &optional y &rest z) ...) made under y = 1 has    *)
(* been called with 5 7 11: x is 5, y is 7 and z is the list (11)           *)
C12_Witness ==
    /\ Running(TestRestArgs)
    /\ last = "CallClosure"
    /\ ctl = StepC
    /\ Len(CurVars) = 4
    /\ heap[CurVars[2]] = Cell(SymObj(sym_X), Int_(5))
    /\ heap[CurVars[3]] = Cell(SymObj(sym_Y), Int_(7))
    /\ heap[CurVars[4]].car = SymObj(sym_Z)
    /\ ListElems(heap, heap[CurVars[4]].cdr) = <<Int_(11)>>

(* C13: what `function` returns.  With exactly one argument that is a cons *)
(* headed by lambda, (lambda ARGLIST . BODY), the value is a new list       *)
(* (closure ENV ARGLIST . BODY) whose tail after ENV is the lambda's own    *)
(* tail and whose ENV is a new proper list of the binding cells of the      *)
(* current lexical stack, as the same cell objects, outermost first,        *)
(* followed by t ((t) on an empty stack); no existing cell is changed.      *)
(* Any other single argument is returned as it is, unevaluated, with no     *)
(* allocation.  A `function` form with zero or several arguments fails      *)
(* with ArgCount(1, n).                                                     *)
C13_FunctionBuildsClosure ==
    [][/\ (last' = "EvalFunction" /\ Proper(heap, Cdr(heap, ctl.o))) =>
             LET obj == Cdr(heap, ctl.o)
                 len == ListLen(heap, obj)
                 arg == Car(heap, obj)
                 clo == ctl'.o
                 env == Car(heap', Cdr(heap', clo))
             IN IF len # 1
                THEN ctl' = ErrC(ArgCount(1, len)) /\ heap' = heap
                ELSE IF IsCons(arg) /\ Car(heap, arg) = SymObj(sym_LAMBDA)
                THEN /\ ctl'.m = "ret"
                     /\ IsCons(clo) /\ clo.v \notin DOMAIN heap
                     /\ Car(heap', clo) = SymObj(sym_CLOSURE)
                     /\ Cdr(heap', Cdr(heap', clo)) = Cdr(heap, arg)
                     /\ Proper(heap', env)
                     /\ ListElems(heap', env)
                           = [i \in DOMAIN CurVars |-> ConsObj(CurVars[i])] \o <<TRUE_>>
                     /\ SubSeq(heap', 1, Len(heap)) = heap
                ELSE ctl' = RetC(arg) /\ heap' = heap
       /\ Done(TestEmptyLambda)' =>
             /\ ListElems(heap', ctl'.o) = <<SymObj(sym_CLOSURE), Car(heap', Cdr(heap', ctl'.o))>>
             /\ ListElems(heap', Car(heap', Cdr(heap', ctl'.o))) = <<TRUE_>>]_vars

(* (let ((y 1) (z 2)) (function (lambda (x) x))) has returned the closure   *)
(* (closure ((y . 1) (z . 2) t) (x) x)                                      *)
C13_Witness ==
    /\ Done(TestClosureEnv)
    /\ IsClosure(heap, ctl.o)
    /\ Len(ClosureEnv(heap, ctl.o)) = 2
    /\ heap[ClosureEnv(heap, ctl.o)[1]] = Cell(SymObj(sym_Y), Int_(1))
    /\ heap[ClosureEnv(heap, ctl.o)[2]] = Cell(SymObj(sym_Z), Int_(2))
    /\ ListElems(heap, Cdr(heap, Cdr(heap, ctl.o))) = <<ClosureArgList(heap, ctl.o), SymObj(sym_X)>>
    /\ ListElems(heap, ClosureArgList(heap, ctl.o)) = <<SymObj(sym_X)>>

(* the evaluations made and the values received, in order, by the handler  *)
(* at depth d after the first `from` entries of the log                     *)
Trace(d, from) ==
    LET ev == SelectSeq(SubSeq(log, from + 1, Len(log)), LAMBDA e : e.d = d)
    IN [i \in DOMAIN ev |-> <<ev[i].m, ev[i].o>>]

(* C14: a macro call evaluates no argument before the transform runs.  When *)
(* the head of a call resolves to a macro, eval_call evaluates nothing and   *)
(* hands the argument forms themselves, in order, to the transform, which    *)
(* runs in a new frame with an empty lexical stack; until the transform has  *)
(* returned, nothing is evaluated on behalf of the call in the caller's      *)
(* frame.  The form the transform returns is then evaluated exactly once,    *)
(* in the caller's frame, and its value is the value of the call.  So a      *)
(* macro that ignores its argument gives 7 on an argument that has no        *)
(* value, and one that returns its argument gives 6 on (+ y 1) under y = 5.  *)
C14_MacroArgumentsUnevaluated ==
    [][/\ (last' = "EvalCall" /\ ctl'.m = "step"
           /\ IsMacro(heap, resolve_callable(funcs, Car(heap, ctl.o).v))) =>
             /\ log' = log
             /\ frames' = Append(frames, <<>>)
             /\ kont'[Len(kont')].k = "call"
             /\ kont'[Len(kont')].p = Cdr(heap, resolve_callable(funcs, Car(heap, ctl.o).v))
             /\ kont'[Len(kont')].vals = ListElems(heap, Cdr(heap, ctl.o))
             /\ kont'[Len(kont') - 1].k = "macro"
       /\ last' = "MacroRet" =>
             /\ Trace(Len(kont), Top.at) = << <<"ret", ctl.o>> >>
             /\ ctl' = EvalC(ctl.o)
             /\ frames' = frames
             /\ CurVars = Top.saved
       /\ last' = "MacroValueRet" =>
             /\ Trace(Len(kont), Top.at)
                   = << <<"ret", Top.p>>, <<"eval", Top.p>>, <<"ret", ctl.o>> >>
             /\ ctl' = RetC(ctl.o)
             /\ frames' = frames
             /\ CurVars = Top.saved
       /\ Ended(TestMacroIgnores)' => ctl' = Ctl("done", Int_(7), NoErr)
       /\ Ended(TestMacroIdentity)' => ctl' = Ctl("done", Int_(6), NoErr)]_vars

(* the macro that returns its argument form was called on (+ y 1) under     *)
(* y = 5: the form has been evaluated in the caller's frame and the call    *)
(* returns 6                                                                *)
C14_Witness ==
    /\ Running(TestMacroIdentity)
    /\ last = "MacroValueRet"
    /\ ctl = RetC(Int_(6))
    /\ Len(CurVars) = 1
    /\ heap[CurVars[1]] = Cell(SymObj(sym_Y), Int_(5))

(* the events of a handler that evaluates the forms one after the other    *)
(* and receives the values vals, one per form                               *)
Alternating(forms, vals) ==
    [i \in 1..(2 * Len(vals)) |->
        IF i % 2 = 1 THEN <<"eval", forms[(i + 1) \div 2]>> ELSE <<"ret", vals[i \div 2]>>]
    \o (IF Len(forms) > Len(vals) THEN << <<"eval", forms[Len(vals) + 1]>> >> ELSE <<>>)

(* C15: a function call evaluates every argument once, left to right,      *)
(* before the callee runs.  When eval_call starts a native function, a      *)
(* compiled function or a closure, the events of the call so far are        *)
(* exactly: first argument form evaluated, its value received, second       *)
(* argument form evaluated, ... for all the argument forms of the call in   *)
(* list order, each once; the callee gets the values in that order (the     *)
(* native's result is call_subr of them, the closure's parameters are bound *)
(* from them, funcall passes the first as the function and the rest on).    *)
(* When an argument fails, the call ends there: the forms after it are not  *)
(* evaluated and the callee is not run.                                     *)
C15_ArgumentsEvaluatedInOrder ==
    [][/\ (last' \in {"CallSubr", "CallLisp", "Funcall", "CallClosure"} /\ Top.k = "args") =>
             /\ Proper(heap, Top.src)
             /\ Len(Top.vals) = ListLen(heap, Top.src)
             /\ Trace(Len(kont), Top.at) = Alternating(ListElems(heap, Top.src), Top.vals)
             /\ last' = "CallSubr" =>
                   \A r \in {call_subr(heap, funcs, Top.p.v, Top.vals)} :
                      /\ ctl' = IF r.ok THEN RetC(r.val) ELSE ErrC(r.err)
                      /\ heap' = r.h
             /\ last' = "CallLisp" => ListElems(heap', ctl'.o) = Top.vals
             /\ last' = "Funcall" /\ ctl'.m = "step" =>
                   /\ kont'[Len(kont')].p = Top.vals[1]
                   /\ kont'[Len(kont')].vals = Tail(Top.vals)
             /\ last' = "CallClosure" =>
                   \A r \in {call_closure(heap, Top.p, Top.vals)} :
                      IF r.ok THEN frames'[Len(frames')] = r.vs /\ heap' = r.h
                      ELSE ctl' = ErrC(r.err)
       /\ (last' = "Unwind" /\ Top.k = "args") =>
             /\ Len(Top.vals) < ListLen(heap, Top.src)
             /\ Trace(Len(kont), Top.at) = Alternating(ListElems(heap, Top.src), Top.vals)
             /\ ctl' = ctl
       /\ Done(TestArgOrder)' => heap'[ctl'.o.v] = Cell(Int_(2), Int_(4))
       /\ Done(TestCompiled)' => ListElems(heap', ctl'.o) = <<Int_(3), Int_(4)>>]_vars

(* cons is about to be called in TestArgOrder: both argument forms have     *)
(* been evaluated, the first to 2 and then the second to 4                  *)
C15_Witness ==
    /\ Running(TestArgOrder)
    /\ last = "ArgsRet"
    /\ Top.k = "args"
    /\ Top.p = SubrObj(sym_CONS)
    /\ Top.vals = <<Int_(2), Int_(4)>>
    /\ Len(Trace(Len(kont), Top.at)) = 4

(* the values a handler at depth d has received after the first `from`     *)
(* entries of the log                                                       *)
Values(d, from) ==
    LET ev == SelectSeq(SubSeq(log, from + 1, Len(log)),
                        LAMBDA e : e.d = d /\ e.m = "ret")
    IN [i \in DOMAIN ev |-> ev[i].o]

(* C16: `and` and `or` evaluate their forms left to right and stop at the   *)
(* first deciding value.  When `and` returns, it has evaluated a prefix of  *)
(* its forms, each once and in order; every value before the last one was   *)
(* non-nil; either the last value is nil and nil is returned, the forms     *)
(* after it never evaluated, or all forms were evaluated and the last value *)
(* is returned (t when there is no form).  `or` likewise stops at the first *)
(* non-nil value and returns it, and returns nil when every form gave nil   *)
(* or there is none.                                                        *)
C16_AndOrShortCircuit ==
    [][/\ (last' \in {"AndStep", "AndRet"} /\ ctl'.m = "ret" /\ Proper(heap, Top.src)) =>
             LET forms == ListElems(heap, Top.src)
                 vals == Values(Len(kont), Top.at)
                 n == Len(vals)
             IN /\ n <= Len(forms)
                /\ Trace(Len(kont), Top.at) = Alternating(SubSeq(forms, 1, n), vals)
                /\ \A i \in 1..(n - 1) : vals[i] # NIL
                /\ IF n > 0 /\ vals[n] = NIL
                   THEN ctl' = RetC(NIL)
                   ELSE /\ n = Len(forms)
                        /\ ctl' = RetC(IF n = 0 THEN TRUE_ ELSE vals[n])
       /\ (last' \in {"OrStep", "OrRet"} /\ ctl'.m = "ret" /\ Proper(heap, Top.src)) =>
             LET forms == ListElems(heap, Top.src)
                 vals == Values(Len(kont), Top.at)
                 n == Len(vals)
             IN /\ n <= Len(forms)
                /\ Trace(Len(kont), Top.at) = Alternating(SubSeq(forms, 1, n), vals)
                /\ \A i \in 1..(n - 1) : vals[i] = NIL
                /\ IF n > 0 /\ vals[n] # NIL
                   THEN ctl' = RetC(vals[n])
                   ELSE /\ n = Len(forms)
                        /\ ctl' = RetC(NIL)
       /\ Ended(TestAndStops)' => ctl' = Ctl("done", NIL, NoErr)
       /\ Ended(TestOrStops)' => ctl' = Ctl("done", Int_(1), NoErr)]_vars

(* (and 1 nil undef) returns nil at its second form: undef, which has no    *)
(* value, was not evaluated                                                 *)
C16_Witness ==
    /\ Running(TestAndStops)
    /\ last = "AndRet"
    /\ ctl = RetC(NIL)
    /\ Len(log) = 6

(* C17: `if` evaluates its condition once and then one branch.  When `if`  *)
(* returns, its own events are: the condition evaluated, its value          *)
(* received, and then, for a non-nil value, the then-form evaluated and its *)
(* value received and returned, nothing else; for nil, the then-form is not *)
(* evaluated and the forms after it are evaluated each once in order, the   *)
(* value of the last one being returned, nil when there is none.  When the  *)
(* condition fails no branch is evaluated.  With fewer than two forms `if`  *)
(* fails with ArgCount(2, n) and evaluates nothing.                         *)
C17_IfEvaluatesOneBranch ==
    [][/\ (last' = "IfBranchRet" /\ Proper(heap, Top.src)) =>
             LET forms == ListElems(heap, Top.src)
                 d == Len(kont)
                 rest == Drop(forms, 2)
                 vals == Values(d + 1, Top.n)
             IN /\ ctl' = RetC(ctl.o)
                /\ IF Top.p # NIL
                   THEN Trace(d, Top.at) = << <<"eval", forms[1]>>, <<"ret", Top.p>>,
                                             <<"eval", forms[2]>>, <<"ret", ctl.o>> >>
                   ELSE /\ Trace(d, Top.at) = << <<"eval", forms[1]>>, <<"ret", NIL>>,
                                                 <<"ret", ctl.o>> >>
                        /\ Len(vals) = Len(rest)
                        /\ Trace(d + 1, Top.n) = Alternating(rest, vals)
                        /\ ctl.o = IF rest = <<>> THEN NIL ELSE vals[Len(vals)]
       /\ (last' = "Unwind" /\ Top.k = "if" /\ ~Top.flag /\ Proper(heap, Top.src)) =>
             Trace(Len(kont), Top.at) = << <<"eval", Car(heap, Top.src)>> >>
       /\ (last' = "EvalIf" /\ Proper(heap, Cdr(heap, ctl.o))
           /\ ListLen(heap, Cdr(heap, ctl.o)) < 2) =>
             /\ ctl' = ErrC(ArgCount(2, ListLen(heap, Cdr(heap, ctl.o))))
             /\ log' = log
       /\ Ended(TestIfElse)' => ctl' = Ctl("done", Int_(3), NoErr)
       /\ Ended(TestIfThen)' => ctl' = Ctl("done", Int_(1), NoErr)]_vars

(* (if nil undef 2 3) returns 3: the condition, then 2 and 3 were           *)
(* evaluated, and undef was not                                             *)
C17_Witness ==
    /\ Running(TestIfElse)
    /\ last = "IfBranchRet"
    /\ ctl = RetC(Int_(3))
    /\ \A i \in DOMAIN log : log[i].o # SymObj(sym_UNDEF)

(* the test form of a clause of cond: its first element, nil for ()        *)
ClauseTest(h, clause) == IF IsCons(clause) THEN Car(h, clause) ELSE NIL

(* C18: `cond` evaluates the tests of its clauses in order and stops at the *)
(* first non-nil one.  When `cond` returns, the tests it has evaluated are  *)
(* those of a prefix of its clauses, each once and in order, all nil but    *)
(* possibly the last; if the last is non-nil, the remaining forms of that   *)
(* clause, and no form of a later clause, were evaluated, each once and in  *)
(* order, and the value is that of the last of them, or the value of the    *)
(* test itself when the clause has no other form; otherwise every clause    *)
(* was tested and the value is nil.                                         *)
C18_CondFirstTrueClause ==
    [][/\ (last' \in {"CondStep", "CondRet", "CondBodyRet"} /\ ctl'.m = "ret"
           /\ Proper(heap, Top.src)
           /\ \A i \in DOMAIN ListElems(heap, Top.src) :
                 Proper(heap, ListElems(heap, Top.src)[i])) =>
             LET clauses == ListElems(heap, Top.src)
                 d == Len(kont)
                 got == Values(d, Top.at)
                 tvals == IF Top.flag THEN SubSeq(got, 1, Len(got) - 1) ELSE got
                 n == Len(tvals)
                 tests == [i \in 1..n |-> ClauseTest(heap, clauses[i])]
                 body == ListElems(heap, Cdr(heap, clauses[n]))
                 bvals == Values(d + 1, Top.n)
             IN /\ n <= Len(clauses)
                /\ Trace(d, Top.at) = Alternating(tests, tvals)
                                        \o (IF Top.flag THEN << <<"ret", ctl.o>> >> ELSE <<>>)
                /\ \A i \in 1..(n - 1) : tvals[i] = NIL
                /\ IF n > 0 /\ tvals[n] # NIL
                   THEN IF body = <<>>
                        THEN ~Top.flag /\ ctl' = RetC(tvals[n])
                        ELSE /\ Top.flag
                             /\ Len(bvals) = Len(body)
                             /\ Trace(d + 1, Top.n) = Alternating(body, bvals)
                             /\ ctl' = RetC(bvals[Len(bvals)])
                   ELSE /\ n = Len(clauses)
                        /\ ~Top.flag
                        /\ ctl' = RetC(NIL)
       /\ Ended(TestCondSecond)' => ctl' = Ctl("done", Int_(3), NoErr)]_vars

(* (cond (nil undef) (2 1 3) (undef 5)) returns 3: the tests nil and 2 and  *)
(* the forms 1 and 3 were evaluated, undef never                            *)
C18_Witness ==
    /\ Running(TestCondSecond)
    /\ last = "CondBodyRet"
    /\ ctl = RetC(Int_(3))
    /\ \A i \in DOMAIN log : log[i].o # SymObj(sym_UNDEF)

RECURSIVE WhileEvents(_, _)
(* tr is the sequence of events of a finished loop on the condition form c: *)
(* for each iteration c evaluated, a non-nil value received and the value   *)
(* of the body received, then c evaluated and nil received                  *)
WhileEvents(tr, c) ==
    /\ Len(tr) >= 2
    /\ tr[1] = <<"eval", c>>
    /\ tr[2][1] = "ret"
    /\ IF tr[2][2] = NIL THEN Len(tr) = 2
       ELSE /\ Len(tr) >= 3
            /\ tr[3][1] = "ret"
            /\ WhileEvents(Drop(tr, 3), c)

(* C19: `while` evaluates its condition before every iteration.  Whenever   *)
(* the body of the loop has returned, it has evaluated all its forms, each  *)
(* once and in order, since the condition was last found non-nil, and the   *)
(* condition is evaluated next.  When the loop returns, its own events are: *)
(* the condition evaluated, a non-nil value, the body run; ... ; the        *)
(* condition evaluated, nil.  So the body has run once for each time the    *)
(* condition was non-nil, the loop stops at the first nil value of the      *)
(* condition, and it returns nil.                                           *)
C19_WhileLoops ==
    [][/\ (last' = "WhileRet" /\ Top.flag /\ Proper(heap, Top.src)) =>
             LET body == ListElems(heap, Cdr(heap, Top.src))
                 bvals == Values(Len(kont) + 1, Top.n)
             IN /\ Len(bvals) = Len(body)
                /\ Trace(Len(kont) + 1, Top.n) = Alternating(body, bvals)
                /\ ctl' = EvalC(Car(heap, Top.src))
                /\ kont'[Len(kont')].k = "while"
       /\ (last' = "WhileRet" /\ ~Top.flag /\ ctl.o # NIL) =>
             /\ ctl' = StepC
             /\ kont'[Len(kont')] = PrognK(Cdr(heap, Top.src))
       /\ (last' = "WhileRet" /\ ~Top.flag /\ ctl.o = NIL) =>
             /\ WhileEvents(Trace(Len(kont), Top.at), Car(heap, Top.src))
             /\ ctl' = RetC(NIL)
       /\ Ended(TestWhileTwice)' => ctl' = Ctl("done", Int_(2), NoErr)]_vars

(* the loop over (1 2) has returned nil after two runs of its body *)
C19_Witness ==
    /\ Running(TestWhileTwice)
    /\ last = "WhileRet"
    /\ ctl = RetC(NIL)
    /\ globals[sym_Y] = Int_(2)

(* C20: prog1, prog2 and progn evaluate all their forms in order.  When    *)
(* prog1 or prog2 ends, every one of its forms has been evaluated, each     *)
(* once and in list order; it returns the value of its first (prog1) or     *)
(* second (prog2) form, and fails with ArgCount(index, number of forms)     *)
(* when it has fewer forms than that.  When progn, or an implicit progn,    *)
(* ends, every form has been evaluated once in order and the value is that  *)
(* of the last form, nil when there is none.                                *)
C20_ProgFormsInOrder ==
    [][/\ (last' = "EvalProgx" /\ ctl' = StepC) =>
             kont'[Len(kont')].n2 = IF Car(heap, ctl.o) = SymObj(sym_PROG1) THEN 1 ELSE 2
       /\ (last' = "ProgxStep" /\ Len(kont') < Len(kont) /\ Proper(heap, Top.src)) =>
             LET forms == ListElems(heap, Top.src)
                 vals == Values(Len(kont), Top.at)
             IN /\ Len(vals) = Len(forms)
                /\ Trace(Len(kont), Top.at) = Alternating(forms, vals)
                /\ ctl' = IF Len(forms) >= Top.n2 THEN RetC(vals[Top.n2])
                          ELSE ErrC(ArgCount(Top.n2, Len(forms)))
       /\ (last' = "PrognStep" /\ Len(kont') < Len(kont) /\ Proper(heap, Top.src)) =>
             LET forms == ListElems(heap, Top.src)
                 vals == Values(Len(kont), Top.at)
             IN /\ Len(vals) = Len(forms)
                /\ Trace(Len(kont), Top.at) = Alternating(forms, vals)
                /\ ctl' = RetC(IF forms = <<>> THEN NIL ELSE vals[Len(vals)])
       /\ Ended(TestProg1)' => ctl' = Ctl("done", Int_(1), NoErr)
       /\ Ended(TestProg2)' => ctl' = Ctl("done", Int_(2), NoErr)]_vars

(* (prog2 1 2 3) returns 2 after its three forms were evaluated *)
C20_Witness ==
    /\ Running(TestProg2)
    /\ last = "ProgxStep"
    /\ ctl = RetC(Int_(2))
    /\ Len(log) = 8

(* C21: a keyword evaluates to itself whatever is bound.  Evaluating a     *)
(* symbol whose name begins with ':' returns that symbol and changes        *)
(* nothing, in every frame and whatever the lexical stack and the global    *)
(* store hold for it: also under a let of the keyword and after a setq of   *)
(* it, lexical or global.                                                   *)
C21_KeywordsSelfEvaluate ==
    [][/\ (last' = "EvalSymbol" /\ IsKeyword(ctl.o.v)) =>
             /\ ctl' = RetC(ctl.o)
             /\ heap' = heap
             /\ globals' = globals
             /\ frames' = frames
       /\ Ended(TestKeywordLet)' => ctl' = Ctl("done", SymObj(sym_KEY), NoErr)
       /\ Ended(TestKeywordGlobal)' =>
             /\ ctl' = Ctl("done", SymObj(sym_KEY), NoErr)
             /\ globals'[sym_KEY] = Int_(5)]_vars

(* :k has been evaluated to itself under a let of :k whose cell a setq has  *)
(* set to 2                                                                 *)
C21_Witness ==
    /\ Running(TestKeywordLet)
    /\ last = "EvalSymbol"
    /\ ctl = RetC(SymObj(sym_KEY))
    /\ Len(CurVars) = 1
    /\ heap[CurVars[1]] = Cell(SymObj(sym_KEY), Int_(2))

(* the form under evaluation is a cons that can be neither a special form  *)
(* nor a call: its head is not a symbol, or is a symbol that names no       *)
(* special form and whose function cell is empty or holds a list that is    *)
(* neither a closure nor a macro                                            *)
NotCallable ==
    /\ ctl.m = "eval"
    /\ IsCons(ctl.o)
    /\ \/ ~IsSym(Car(heap, ctl.o))
       \/ /\ Car(heap, ctl.o).v \notin SpecialForms
          /\ \E func \in {resolve_callable(funcs, Car(heap, ctl.o).v)} :
                \/ func = Unbound
                \/ /\ IsCons(func)
                   /\ Car(heap, func) # SymObj(sym_CLOSURE)
                   /\ ~IsMacro(heap, func)

(* C22: a form that cannot be called fails before its arguments are         *)
(* evaluated.  The step taken on such a form ends in an invalid-function or *)
(* void-function error, evaluates nothing, and leaves the arena, the global *)
(* store, the function cells, the lexical stacks and the pending handlers   *)
(* as they were.                                                            *)
C22_InvalidFunctionBeforeArguments ==
    [][/\ NotCallable =>
             /\ ctl'.m = "err"
             /\ ctl'.e.kind \in {"InvalidFunction", "VoidFunction"}
             /\ last' \in {"EvalSexpInvalid", "EvalCall"}
             /\ log' = log
             /\ UNCHANGED <<heap, globals, funcs, frames, kont>>
       /\ Ended(TestVoidFunction)' =>
             ctl' = Ctl("failed", NIL, Err("VoidFunction", sym_UNDEF, 0))
       /\ \A t \in {TestVoidFunction, TestInvalidHead, TestNotClosure} :
             Ended(t)' => ctl'.m = "failed" /\ globals'[sym_X] = globals[sym_X]]_vars

(* (f (setq x 1)), f defined as the list (lambda nil), has failed as an     *)
(* invalid function and x was not assigned                                  *)
C22_Witness ==
    /\ Ended(TestNotClosure)
    /\ ctl = Ctl("failed", NIL, Err("InvalidFunction", 0, 0))
    /\ globals[sym_X] = Unbound
    /\ \A i \in DOMAIN log : log[i].o # SymObj(sym_X)

(* C23: eval takes a lexical argument that is True, Nil or absent, and     *)
(* then starts the form on one frame with an empty lexical stack and no     *)
(* pending handler; for any other lexical argument it fails at once,        *)
(* evaluates nothing and leaves the global store and the function cells as  *)
(* they were.                                                               *)
C23_EvalLexicalArgument ==
    [][last' = "Eval" =>
        \A p \in {prog'}, lexical \in Lexicals :
          Eval(p, lexical) =>
             IF lexical \in {TRUE_, NIL, Unbound}
             THEN /\ ctl'.m = "eval"
                  /\ ctl'.o = Read(heap, Programs[p]).o
                  /\ frames' = << <<>> >>
                  /\ kont' = <<>>
                  /\ log' = <<[m |-> "eval", d |-> 0, o |-> ctl'.o]>>
                  /\ UNCHANGED <<globals, funcs>>
             ELSE /\ ctl' = Ctl("failed", NIL, Err("LexicalEnvUnsupported", 0, 0))
                  /\ log' = <<>>
                  /\ frames' = <<>>
                  /\ kont' = <<>>
                  /\ UNCHANGED <<globals, funcs>>]_vars

(* an eval of (setq x 1 y 2) was refused for its lexical argument: nothing  *)
(* was evaluated and neither variable was assigned                          *)
C23_Witness ==
    /\ Running(TestSetqPairs)
    /\ last = "Eval"
    /\ ctl = Ctl("failed", NIL, Err("LexicalEnvUnsupported", 0, 0))
    /\ log = <<>>
    /\ globals[sym_X] = Unbound
    /\ globals[sym_Y] = Unbound

(* C24: an error is returned unchanged by every enclosing form up to eval. *)
(* While an error is being returned, each step hands the same error to the  *)
(* next enclosing handler, or to the caller of eval, and evaluates no       *)
(* further form; the arena, the global store and the function cells keep    *)
(* what was done before the error.  (progn (setq x 1 y undef z 3)           *)
(* (setq z 4)) fails with void-variable undef, x is 1, and neither 3 nor 4  *)
(* was evaluated.                                                           *)
C24_ErrorsPropagate ==
    [][/\ ctl.m = "err" =>
             /\ ctl'.e = ctl.e
             /\ IF kont = <<>>
                THEN last' = "EvalReturn" /\ ctl'.m = "failed"
                ELSE last' = "Unwind" /\ ctl' = ctl /\ kont' = Pop
             /\ log' = log
             /\ UNCHANGED <<heap, globals, funcs>>
       /\ Ended(TestSetqError)' =>
             /\ ctl' = Ctl("failed", NIL, Err("VoidVariable", sym_UNDEF, 0))
             /\ globals'[sym_X] = Int_(1)
             /\ \A i \in DOMAIN log' : log'[i].o \notin {Int_(3), Int_(4)}]_vars

(* the error of the second pair of the setq has passed the setq and is at   *)
(* the progn, with x assigned                                               *)
C24_Witness ==
    /\ Running(TestSetqError)
    /\ last = "Unwind"
    /\ ctl = ErrC(Err("VoidVariable", sym_UNDEF, 0))
    /\ Len(kont) = 1
    /\ globals[sym_X] = Int_(1)

(* C25: the mutability flag gates mutable access.  A word built by         *)
(* from_ref gives no mutable view; a word built by from_mut_ref gives a     *)
(* mutable view of the object it was built from, until it is made           *)
(* read-only; after make_read_only a word gives no mutable view; and        *)
(* make_read_only leaves inner() as it was and changes nothing when it is   *)
(* applied a second time.                                                   *)
C25_MutabilityFlag ==
    [][/\ last' = "from_ref" =>
             /\ ~inner_mut(word'.data).some
             /\ inner(word'.data) = word'.given
       /\ last' = "from_mut_ref" =>
             /\ inner_mut(word'.data) = [some |-> TRUE, ptr |-> word'.given]
             /\ inner(word'.data) = word'.given
       /\ last' = "make_read_only" =>
             /\ ~inner_mut(word'.data).some
             /\ inner(word'.data) = inner(word.data)
             /\ inner(word'.data) = word.given
             /\ make_read_only(word'.data) = word'.data]_vars

(* a word built from a mutable reference has been made read-only and gives  *)
(* no mutable view of the object it still refers to                         *)
C25_Witness ==
    /\ word.how = "from_mut_ref"
    /\ last = "make_read_only"
    /\ word.data # from_mut_ref(word.given)
    /\ ~inner_mut(word.data).some
    /\ inner(word.data) = word.given

(* C26: an integer encoded as a value word and decoded again is the same   *)
(* integer, with the tag Int, for every 64-bit signed integer: both for the *)
(* Object word (payload shifted above the tag) and for the Data word (the   *)
(* 7-byte payload).                                                         *)
C26_IntegerRoundTrip ==
    /\ word.how = "from_int" => inner_int(word.data) = word.given
    /\ word.how = "into_obj" =>
          /\ tag_of(word.bits) = Tag.Int
          /\ val_bits(word.bits) = word.given

(* 2^55 was made into an Object, whose tag is Int and whose value decodes   *)
(* to -2^55                                                                 *)
C26_Witness ==
    /\ word.how = "into_obj"
    /\ word.given = <<0, 0, 0, 0, 0, 0, 128, 0>>
    /\ tag_of(word.bits) = Tag.Int
    /\ val_bits(word.bits) = <<0, 0, 0, 0, 0, 0, 128, 255>>

(* C27: interning is idempotent and injective on names.  Of the intern     *)
(* calls made so far, two calls returned the same symbol identity exactly   *)
(* when they were given the same name, whatever was interned in between;    *)
(* and the symbol values built from the results of two calls with the same  *)
(* name are equal, have the tag Symbol and decode to that identity.         *)
C27_InternIdempotentInjective ==
    \A i, j \in DOMAIN obarray.calls :
       \E a \in {obarray.calls[i]}, b \in {obarray.calls[j]} :
          /\ (a.name = b.name) <=> (a.sym = b.sym)
          /\ a.name = b.name =>
                /\ symbol_into(a.sym) = symbol_into(b.sym)
                /\ tag_of(symbol_into(a.sym)) = Tag.Symbol
                /\ val_bits(symbol_into(a.sym)) = b.sym
          /\ a.name # b.name => symbol_into(a.sym) # symbol_into(b.sym)

(* foo was interned, then two other names, then foo again: the first and    *)
(* the last call returned the same symbol, the others two different ones    *)
C27_Witness ==
    /\ Len(obarray.calls) = 4
    /\ obarray.calls[1].name = "foo"
    /\ obarray.calls[4].name = "foo"
    /\ obarray.calls[2].name = "bar"
    /\ obarray.calls[3].name = "1+"
    /\ obarray.calls[1].sym = obarray.calls[4].sym
    /\ Len(obarray.names) = 3

(* the first place of the object o in the sequence, or one past its end *)
FirstIndex(elems, o) ==
    IF \E i \in DOMAIN elems : elems[i] = o
    THEN CHOOSE i \in DOMAIN elems : elems[i] = o /\ \A j \in 1..(i - 1) : elems[j] # o
    ELSE Len(elems) + 1

(* the symbols at the places a..b of the sequence other than &optional *)
NamesIn(elems, a, b) ==
    LET names == SelectSeq(SubSeq(elems, a, b), LAMBDA e : e # SymObj(sym_AND_OPTIONAL))
    IN [i \in DOMAIN names |-> names[i].v]

(* C28: the grammar of a parameter list.  A list with an element that is no *)
(* symbol, or with more than one element after &rest, is rejected by        *)
(* bind_args with an error, and nothing is bound: no cell is made and the   *)
(* lexical stack stays empty.  Every other list is accepted, with the names *)
(* before &optional (or before &rest, when that comes first) as required    *)
(* parameters, the names between &optional and &rest as optional            *)
(* parameters, and the element after &rest, if any, as the rest parameter;  *)
(* when the arguments fit, the cells bound are named after these, in order. *)
C28_ParameterListGrammar ==
    [][\A args \in ArgVectors :
          BindArgs(args) =>
             \E elems \in {ListElems(heap, ctl.o)}, p \in {parse_arg_list(heap, ctl.o)} :
                LET r == FirstIndex(elems, SymObj(sym_AND_REST))
                    o == FirstIndex(SubSeq(elems, 1, r - 1), SymObj(sym_AND_OPTIONAL))
                    rejected == \/ \E i \in DOMAIN elems : ~IsSym(elems[i])
                                \/ Len(elems) > r + 1
                    names == p.required \o p.optional \o
                             (IF p.rest = Unbound THEN <<>> ELSE <<p.rest.v>>)
                IN /\ rejected <=> ~p.ok
                   /\ rejected =>
                         /\ ctl' = ErrC(p.err)
                         /\ p.err \in {TypeErr("Type:Symbol"), Err("MultipleAfterRest", 0, 0)}
                         /\ heap' = heap
                         /\ frames' = << <<>> >>
                   /\ ~rejected =>
                         /\ p.required = NamesIn(elems, 1, o - 1)
                         /\ p.optional = NamesIn(elems, o + 1, r - 1)
                         /\ p.rest = IF r < Len(elems) THEN elems[r + 1] ELSE Unbound
                         /\ ctl'.m = "ret" =>
                               /\ Len(frames'[1]) = Len(names)
                               /\ \A i \in DOMAIN names :
                                     heap'[frames'[1][i]].car = SymObj(names[i])]_vars

(* (x &rest y) was bound to 5 7 11: x is 5 and y holds the list (7 11)     *)
C28_Witness ==
    /\ last = "bind_args"
    /\ ctl.m = "ret"
    /\ ListElems(heap, ctl.o) = <<SymObj(sym_X), SymObj(sym_AND_REST), SymObj(sym_Y)>>
    /\ Len(frames[1]) = 2
    /\ heap[frames[1][1]] = Cell(SymObj(sym_X), Int_(5))
    /\ heap[frames[1][2]].car = SymObj(sym_Y)
    /\ ListElems(heap, heap[frames[1][2]].cdr) = <<Int_(7), Int_(11)>>

(* the binding cells the let or let* form of the handler k has pushed on    *)
(* the lexical stack so far: every cell it made, or none while a let is     *)
(* still collecting its bindings                                            *)
LetPushed(k) == IF k.k = "let_bind" /\ k.flag THEN <<>> ELSE k.vals

(* C29 as stated: when a let or let* form returns an error, the lexical     *)
(* stack of its frame is the stack before the form followed by the          *)
(* bindings the form had pushed, and by nothing else.                       *)
C29_StackIsBeforePlusPushed ==
    [][(last' = "Unwind" /\ Top.k \in {"let_bind", "let_body"}) =>
          /\ frames' = frames
          /\ CurVars = Top.saved \o LetPushed(Top)]_vars

(* C29: no rollback of let bindings on error.  When a let or let* form      *)
(* returns an error, the lexical stack of its frame is left as it is: it    *)
(* begins with the stack before the form followed by the bindings the form  *)
(* had pushed, all of them for a let* or a body error, none for a let whose *)
(* initializer failed; what lies above them are younger cells left by let   *)
(* and let* forms nested in this one that failed too, and without such      *)
(* forms there is nothing above.                                            *)
C29_NoRollbackOnError ==
    [][(last' = "Unwind" /\ Top.k \in {"let_bind", "let_body"}) =>
          \E base \in {Top.saved \o LetPushed(Top)} :
             /\ frames' = frames
             /\ Len(CurVars) >= Len(base)
             /\ SubSeq(CurVars, 1, Len(base)) = base
             /\ \A i \in (Len(base) + 1)..Len(CurVars) :
                   /\ \A j \in DOMAIN base : CurVars[i] > base[j]
                   /\ \A j \in DOMAIN Top.vals : CurVars[i] > Top.vals[j]
             /\ (Top.k = "let_bind" /\ Top.flag) =>
                   \A j \in DOMAIN Top.vals : \A i \in DOMAIN CurVars : CurVars[i] # Top.vals[j]
             /\ (\E t \in {TestLetBodyError, TestLetStarInitError, TestLetInitError} : Running(t))
                   => CurVars = base
             /\ (Running(TestLetStarInitError) \/ Running(TestLetBodyError)) => Len(CurVars) = 1
             /\ Running(TestLetInitError) => CurVars = <<>> /\ Len(Top.vals) = 1]_vars

(* in (let ((x 1)) (let* ((y 2)) undef)) the error has left the inner let*  *)
(* and the outer let: the stack still holds x and, above it, y              *)
C29_Witness ==
    /\ Running(TestNestedLetError)
    /\ last = "Unwind"
    /\ ctl = ErrC(Err("VoidVariable", sym_UNDEF, 0))
    /\ kont = <<>>
    /\ Len(CurVars) = 2
    /\ heap[CurVars[1]] = Cell(SymObj(sym_X), Int_(1))
    /\ heap[CurVars[2]] = Cell(SymObj(sym_Y), Int_(2))

====
